---- MODULE Spec2Model ----
(***************************************************************************)
(* Astro-API engine: the Ashta-Koota compatibility scorer                  *)
(* (app/compatibility.py), the position classifier (app/utils.py), the     *)
(* Parashara affliction detector (app/manglik_detector.py) with its         *)
(* compatibility endpoint (app/main.py), and the chart confidence score     *)
(* (app/astrology.py).                                                      *)
(*                                                                         *)
(* Every function of the engine is a pure function of its arguments, so    *)
(* the state of the model is the last call made and what it returned.      *)
(***************************************************************************)
EXTENDS Integers, Sequences, FiniteSets, TLC

VARIABLES
    op,     \* name of the function called last ("none" before any call)
    kin,    \* arguments of the last generate_ashta_koota call
    kout,   \* what that call raised or returned
    lon,    \* argument of the last position-classifier call (a double)
    out,    \* what that call returned
    din,    \* arguments of the last detector, endpoint or confidence call
    dout,   \* what that call returned
    detector \* the ManglikDetector held in app.state, shared by all requests

vars == <<op, kin, kout, lon, out, din, dout, detector>>

(***************************************************************************)
(* compatibility.py: reference tables                                      *)
(***************************************************************************)

RASHI_ORDER ==
    << "Aries", "Taurus", "Gemini", "Cancer", "Leo", "Virgo",
       "Libra", "Scorpio", "Sagittarius", "Capricorn", "Aquarius", "Pisces" >>

NAKSHATRA_ORDER ==
    << "Ashwini", "Bharani", "Krittika", "Rohini", "Mrigashira", "Ardra",
       "Punarvasu", "Pushya", "Ashlesha", "Magha", "Purva Phalguni", "Uttara Phalguni",
       "Hasta", "Chitra", "Swati", "Vishakha", "Anuradha", "Jyeshtha", "Mula",
       "Purva Ashadha", "Uttara Ashadha", "Shravana", "Dhanishta", "Shatabhisha",
       "Purva Bhadrapada", "Uttara Bhadrapada", "Revati" >>

VARNA_ORDER == << "Shudra", "Vaishya", "Kshatriya", "Brahmin" >>

VARNA_BY_RASHI ==
    ("Aries" :> "Kshatriya") @@ ("Leo" :> "Kshatriya") @@ ("Sagittarius" :> "Kshatriya") @@
    ("Taurus" :> "Vaishya") @@ ("Virgo" :> "Vaishya") @@ ("Capricorn" :> "Vaishya") @@
    ("Gemini" :> "Shudra") @@ ("Libra" :> "Shudra") @@ ("Aquarius" :> "Shudra") @@
    ("Cancer" :> "Brahmin") @@ ("Scorpio" :> "Brahmin") @@ ("Pisces" :> "Brahmin")

VASHYA ==
    ("Aries" :> {"Leo", "Scorpio"}) @@
    ("Taurus" :> {"Cancer", "Libra"}) @@
    ("Gemini" :> {"Virgo"}) @@
    ("Cancer" :> {"Scorpio", "Pisces"}) @@
    ("Leo" :> {"Libra"}) @@
    ("Virgo" :> {"Pisces", "Gemini"}) @@
    ("Libra" :> {"Virgo", "Capricorn"}) @@
    ("Scorpio" :> {"Cancer"}) @@
    ("Sagittarius" :> {"Pisces"}) @@
    ("Capricorn" :> {"Aries", "Aquarius"}) @@
    ("Aquarius" :> {"Aries"}) @@
    ("Pisces" :> {"Capricorn"})

GRAHA_MAITRI_FRIEND ==
    ("Sun" :> {"Moon", "Mars", "Jupiter"}) @@
    ("Moon" :> {"Sun", "Mercury"}) @@
    ("Mars" :> {"Sun", "Moon", "Jupiter"}) @@
    ("Mercury" :> {"Sun", "Venus"}) @@
    ("Jupiter" :> {"Sun", "Moon", "Mars"}) @@
    ("Venus" :> {"Mercury", "Saturn"}) @@
    ("Saturn" :> {"Mercury", "Venus"})

GRAHA_NEUTRAL ==
    ("Sun" :> {"Mercury"}) @@
    ("Moon" :> {"Mars", "Jupiter", "Venus", "Saturn"}) @@
    ("Mars" :> {"Venus", "Saturn"}) @@
    ("Mercury" :> {"Mars", "Jupiter", "Saturn"}) @@
    ("Jupiter" :> {"Saturn"}) @@
    ("Venus" :> {"Mars", "Jupiter"}) @@
    ("Saturn" :> {"Jupiter"})

RASHI_LORD ==
    ("Aries" :> "Mars") @@ ("Taurus" :> "Venus") @@ ("Gemini" :> "Mercury") @@
    ("Cancer" :> "Moon") @@ ("Leo" :> "Sun") @@ ("Virgo" :> "Mercury") @@
    ("Libra" :> "Venus") @@ ("Scorpio" :> "Mars") @@ ("Sagittarius" :> "Jupiter") @@
    ("Capricorn" :> "Saturn") @@ ("Aquarius" :> "Saturn") @@ ("Pisces" :> "Jupiter")

GANA ==
    ("Ashwini" :> "Deva") @@ ("Bharani" :> "Manushya") @@ ("Krittika" :> "Rakshasa") @@
    ("Rohini" :> "Manushya") @@ ("Mrigashira" :> "Deva") @@ ("Ardra" :> "Manushya") @@
    ("Punarvasu" :> "Deva") @@ ("Pushya" :> "Deva") @@ ("Ashlesha" :> "Rakshasa") @@
    ("Magha" :> "Rakshasa") @@ ("Purva Phalguni" :> "Manushya") @@
    ("Uttara Phalguni" :> "Manushya") @@
    ("Hasta" :> "Deva") @@ ("Chitra" :> "Rakshasa") @@ ("Swati" :> "Deva") @@
    ("Vishakha" :> "Rakshasa") @@ ("Anuradha" :> "Deva") @@ ("Jyeshtha" :> "Rakshasa") @@
    ("Mula" :> "Rakshasa") @@ ("Purva Ashadha" :> "Manushya") @@
    ("Uttara Ashadha" :> "Manushya") @@
    ("Shravana" :> "Deva") @@ ("Dhanishta" :> "Rakshasa") @@ ("Shatabhisha" :> "Rakshasa") @@
    ("Purva Bhadrapada" :> "Manushya") @@ ("Uttara Bhadrapada" :> "Manushya") @@
    ("Revati" :> "Deva")

YONI ==
    ("Ashwini" :> "Horse") @@ ("Bharani" :> "Elephant") @@ ("Krittika" :> "Sheep") @@
    ("Rohini" :> "Serpent") @@ ("Mrigashira" :> "Deer") @@ ("Ardra" :> "Dog") @@
    ("Punarvasu" :> "Cat") @@ ("Pushya" :> "Sheep") @@ ("Ashlesha" :> "Cat") @@
    ("Magha" :> "Rat") @@ ("Purva Phalguni" :> "Rat") @@ ("Uttara Phalguni" :> "Cow") @@
    ("Hasta" :> "Buffalo") @@ ("Chitra" :> "Tiger") @@ ("Swati" :> "Buffalo") @@
    ("Vishakha" :> "Tiger") @@ ("Anuradha" :> "Deer") @@ ("Jyeshtha" :> "Deer") @@
    ("Mula" :> "Dog") @@ ("Purva Ashadha" :> "Monkey") @@ ("Uttara Ashadha" :> "Mongoose") @@
    ("Shravana" :> "Monkey") @@ ("Dhanishta" :> "Lion") @@ ("Shatabhisha" :> "Horse") @@
    ("Purva Bhadrapada" :> "Lion") @@ ("Uttara Bhadrapada" :> "Cow") @@
    ("Revati" :> "Elephant")

YONI_ENEMIES ==
    { <<"Rat", "Cat">>, <<"Cat", "Rat">>,
      <<"Lion", "Elephant">>, <<"Elephant", "Lion">>,
      <<"Dog", "Deer">>, <<"Deer", "Dog">>,
      <<"Monkey", "Sheep">>, <<"Sheep", "Monkey">>,
      <<"Mongoose", "Serpent">>, <<"Serpent", "Mongoose">>,
      <<"Cow", "Tiger">>, <<"Tiger", "Cow">>,
      <<"Horse", "Buffalo">>, <<"Buffalo", "Horse">>,
      <<"Rat", "Lion">>, <<"Lion", "Rat">> }

NADI ==
    ("Ashwini" :> "Adi") @@ ("Bharani" :> "Madhya") @@ ("Krittika" :> "Antya") @@
    ("Rohini" :> "Adi") @@ ("Mrigashira" :> "Madhya") @@ ("Ardra" :> "Antya") @@
    ("Punarvasu" :> "Adi") @@ ("Pushya" :> "Madhya") @@ ("Ashlesha" :> "Antya") @@
    ("Magha" :> "Antya") @@ ("Purva Phalguni" :> "Adi") @@ ("Uttara Phalguni" :> "Madhya") @@
    ("Hasta" :> "Antya") @@ ("Chitra" :> "Adi") @@ ("Swati" :> "Madhya") @@
    ("Vishakha" :> "Antya") @@
    ("Anuradha" :> "Adi") @@ ("Jyeshtha" :> "Madhya") @@ ("Mula" :> "Antya") @@
    ("Purva Ashadha" :> "Adi") @@ ("Uttara Ashadha" :> "Madhya") @@ ("Shravana" :> "Antya") @@
    ("Dhanishta" :> "Adi") @@ ("Shatabhisha" :> "Madhya") @@
    ("Purva Bhadrapada" :> "Adi") @@ ("Uttara Bhadrapada" :> "Madhya") @@ ("Revati" :> "Antya")

(***************************************************************************)
(* Python helpers                                                          *)
(***************************************************************************)

\* x in list
InList(x, list) == \E i \in 1..Len(list) : list[i] = x

\* list.index(x), 0-based, first occurrence
ListIndex(list, x) ==
    (CHOOSE i \in 1..Len(list) :
        list[i] = x /\ \A j \in 1..(i - 1) : list[j] # x) - 1

(***************************************************************************)
(* compatibility.py: get_friendship_status and generate_ashta_koota        *)
(***************************************************************************)

\* dict.get(planet_from, []) on the two friendship tables
get_friendship_status(planet_from, planet_to) ==
    IF planet_from \in DOMAIN GRAHA_MAITRI_FRIEND
          /\ planet_to \in GRAHA_MAITRI_FRIEND[planet_from]
    THEN "Friend"
    ELSE IF planet_from \in DOMAIN GRAHA_NEUTRAL
               /\ planet_to \in GRAHA_NEUTRAL[planet_from]
         THEN "Neutral"
         ELSE "Enemy"

\* Input validation: the field of the first failing check, "" when all pass.
Validate_WrongField(bride_moon_sign, bride_nakshatra, groom_moon_sign, groom_nakshatra) ==
    IF ~InList(bride_nakshatra, NAKSHATRA_ORDER) THEN "Bride Nakshatra"
    ELSE IF ~InList(groom_nakshatra, NAKSHATRA_ORDER) THEN "Bride Nakshatra"
    ELSE IF ~InList(bride_moon_sign, RASHI_ORDER) THEN "Bride Moon Sign"
    ELSE IF ~InList(groom_moon_sign, RASHI_ORDER) THEN "Bride Moon Sign"
    ELSE ""

Validate(bride_moon_sign, bride_nakshatra, groom_moon_sign, groom_nakshatra) ==
    IF ~InList(bride_nakshatra, NAKSHATRA_ORDER) THEN "Bride Nakshatra"
    ELSE IF ~InList(groom_nakshatra, NAKSHATRA_ORDER) THEN "Groom Nakshatra"
    ELSE IF ~InList(bride_moon_sign, RASHI_ORDER) THEN "Bride Moon Sign"
    ELSE IF ~InList(groom_moon_sign, RASHI_ORDER) THEN "Groom Moon Sign"
    ELSE ""

\* The value named in the ValueError message for a failing field.
InvalidValue(field, bride_moon_sign, bride_nakshatra, groom_moon_sign, groom_nakshatra) ==
    CASE field = "Bride Nakshatra" -> bride_nakshatra
      [] field = "Groom Nakshatra" -> groom_nakshatra
      [] field = "Bride Moon Sign" -> bride_moon_sign
      [] field = "Groom Moon Sign" -> groom_moon_sign

\* KOOTA 1
Varna(bride_moon_sign, groom_moon_sign) ==
    LET b_varna == ListIndex(VARNA_ORDER, VARNA_BY_RASHI[bride_moon_sign])
        g_varna == ListIndex(VARNA_ORDER, VARNA_BY_RASHI[groom_moon_sign])
    IN  IF g_varna >= b_varna THEN 1 ELSE 0

\* KOOTA 2
Vashya_Reversed(bride_moon_sign, groom_moon_sign) ==
    IF bride_moon_sign = groom_moon_sign THEN 2
    ELSE IF bride_moon_sign \in DOMAIN VASHYA
               /\ groom_moon_sign \in VASHYA[bride_moon_sign] THEN 2
    ELSE 0

Vashya(bride_moon_sign, groom_moon_sign) ==
    IF bride_moon_sign = groom_moon_sign THEN 2
    ELSE IF groom_moon_sign \in DOMAIN VASHYA
               /\ bride_moon_sign \in VASHYA[groom_moon_sign] THEN 2
    ELSE 0

\* Remainder truncating toward zero (C's %), which Python's % is not.
TruncRem(a, n) == IF a >= 0 THEN a % n ELSE -((-a) % n)

\* KOOTA 3
Tara_TruncRem(b_nak_idx, g_nak_idx) ==
    LET count == TruncRem(g_nak_idx - b_nak_idx, 27)
        tara_val == TruncRem(count, 9)
    IN  IF tara_val \in {0, 2, 4, 6} THEN 0 ELSE 3

Tara(b_nak_idx, g_nak_idx) ==
    LET count == (g_nak_idx - b_nak_idx) % 27
        tara_val == count % 9
    IN  IF tara_val \in {0, 2, 4, 6} THEN 0 ELSE 3

\* KOOTA 4
Yoni(bride_nakshatra, groom_nakshatra) ==
    LET y1 == YONI[bride_nakshatra]
        y2 == YONI[groom_nakshatra]
    IN  IF <<y1, y2>> \in YONI_ENEMIES \/ <<y2, y1>> \in YONI_ENEMIES THEN 0 ELSE 4

\* KOOTA 5: the score and the lords_are_friendly flag
GrahaMaitri_OneWay(l1, l2) ==
    IF l1 = l2
    THEN [score |-> 5, lords_are_friendly |-> TRUE]
    ELSE LET rel_1_to_2 == get_friendship_status(l1, l2)
             rel_2_to_1 == get_friendship_status(l2, l1)
         IN  IF rel_1_to_2 = "Friend" /\ rel_2_to_1 = "Friend"
             THEN [score |-> 5, lords_are_friendly |-> TRUE]
             ELSE IF rel_1_to_2 = "Friend" /\ rel_2_to_1 = "Neutral"
             THEN [score |-> 4, lords_are_friendly |-> TRUE]
             ELSE IF rel_1_to_2 = "Neutral" /\ rel_2_to_1 = "Neutral"
             THEN [score |-> 3, lords_are_friendly |-> FALSE]
             ELSE IF rel_1_to_2 = "Neutral" /\ rel_2_to_1 = "Enemy"
             THEN [score |-> 2, lords_are_friendly |-> FALSE]
             ELSE [score |-> 0, lords_are_friendly |-> FALSE]

GrahaMaitri(l1, l2) ==
    IF l1 = l2
    THEN [score |-> 5, lords_are_friendly |-> TRUE]
    ELSE LET rel_1_to_2 == get_friendship_status(l1, l2)
             rel_2_to_1 == get_friendship_status(l2, l1)
         IN  IF rel_1_to_2 = "Friend" /\ rel_2_to_1 = "Friend"
             THEN [score |-> 5, lords_are_friendly |-> TRUE]
             ELSE IF (rel_1_to_2 = "Friend" /\ rel_2_to_1 = "Neutral")
                     \/ (rel_1_to_2 = "Neutral" /\ rel_2_to_1 = "Friend")
             THEN [score |-> 4, lords_are_friendly |-> TRUE]
             ELSE IF rel_1_to_2 = "Neutral" /\ rel_2_to_1 = "Neutral"
             THEN [score |-> 3, lords_are_friendly |-> FALSE]
             ELSE IF (rel_1_to_2 = "Neutral" /\ rel_2_to_1 = "Enemy")
                     \/ (rel_1_to_2 = "Enemy" /\ rel_2_to_1 = "Neutral")
             THEN [score |-> 2, lords_are_friendly |-> FALSE]
             ELSE [score |-> 0, lords_are_friendly |-> FALSE]

\* KOOTA 6
Gana_Swapped(bride_nakshatra, groom_nakshatra) ==
    LET g1 == GANA[bride_nakshatra]
        g2 == GANA[groom_nakshatra]
        pair == {g1, g2}
    IN  IF g1 = g2 THEN 6
        ELSE IF pair = {"Deva", "Manushya"} THEN 5
        ELSE IF pair = {"Manushya", "Rakshasa"} THEN 0
        ELSE 1

Gana(bride_nakshatra, groom_nakshatra) ==
    LET g1 == GANA[bride_nakshatra]
        g2 == GANA[groom_nakshatra]
        pair == {g1, g2}
    IN  IF g1 = g2 THEN 6
        ELSE IF pair = {"Deva", "Manushya"} THEN 5
        ELSE IF pair = {"Manushya", "Rakshasa"} THEN 1
        ELSE 0

\* KOOTA 7
Bhakoot_NoParihara(r1_idx, r2_idx, lords_are_friendly) ==
    LET dist == (r2_idx - r1_idx) % 12
        is_bhakoot_dosha == dist \in {1, 11, 4, 8, 5, 7}
    IN  IF is_bhakoot_dosha THEN 0 ELSE 7

Bhakoot(r1_idx, r2_idx, lords_are_friendly) ==
    LET dist == (r2_idx - r1_idx) % 12
        is_bhakoot_dosha == dist \in {1, 11, 4, 8, 5, 7}
    IN  IF is_bhakoot_dosha
        THEN (IF lords_are_friendly THEN 7 ELSE 0)
        ELSE 7

\* KOOTA 8
Nadi_SameIsFull(bride_nakshatra, groom_nakshatra) ==
    IF NADI[bride_nakshatra] = NADI[groom_nakshatra] THEN 8 ELSE 0

Nadi(bride_nakshatra, groom_nakshatra) ==
    IF NADI[bride_nakshatra] = NADI[groom_nakshatra] THEN 0 ELSE 8

Verdict_Above18(score) == IF score > 18 THEN "Good" ELSE "Low"

Verdict(score) == IF score >= 18 THEN "Good" ELSE "Low"

\* What a call produces: a raised ValueError (its field and value), or the
\* returned dictionary as the one element of ret.
generate_ashta_koota(bride_moon_sign, bride_nakshatra, groom_moon_sign, groom_nakshatra) ==
    LET bad == Validate(bride_moon_sign, bride_nakshatra, groom_moon_sign, groom_nakshatra)
    IN  IF bad # ""
        THEN [raised |-> "ValueError",
              field  |-> bad,
              value  |-> InvalidValue(bad, bride_moon_sign, bride_nakshatra,
                                      groom_moon_sign, groom_nakshatra),
              ret    |-> << >>]
        ELSE
        LET b_nak_idx == ListIndex(NAKSHATRA_ORDER, bride_nakshatra)
            g_nak_idx == ListIndex(NAKSHATRA_ORDER, groom_nakshatra)
            r1_idx == ListIndex(RASHI_ORDER, bride_moon_sign)
            r2_idx == ListIndex(RASHI_ORDER, groom_moon_sign)
            l1 == RASHI_LORD[bride_moon_sign]
            l2 == RASHI_LORD[groom_moon_sign]
            gm == GrahaMaitri(l1, l2)
            breakdown ==
                ("Varna" :> Varna(bride_moon_sign, groom_moon_sign)) @@
                ("Vashya" :> Vashya(bride_moon_sign, groom_moon_sign)) @@
                ("Tara" :> Tara(b_nak_idx, g_nak_idx)) @@
                ("Yoni" :> Yoni(bride_nakshatra, groom_nakshatra)) @@
                ("Graha Maitri" :> gm.score) @@
                ("Gana" :> Gana(bride_nakshatra, groom_nakshatra)) @@
                ("Bhakoot" :> Bhakoot(r1_idx, r2_idx, gm.lords_are_friendly)) @@
                ("Nadi" :> Nadi(bride_nakshatra, groom_nakshatra))
            score == 0 + breakdown["Varna"] + breakdown["Vashya"] + breakdown["Tara"]
                       + breakdown["Yoni"] + breakdown["Graha Maitri"] + breakdown["Gana"]
                       + breakdown["Bhakoot"] + breakdown["Nadi"]
        IN  [raised |-> "",
             field  |-> "",
             value  |-> "",
             ret    |-> << [total_gunas |-> score,
                            max_gunas   |-> 36,
                            breakdown   |-> breakdown,
                            verdict     |-> Verdict(score)] >>]

(***************************************************************************)
(* utils.py: binary64 arithmetic                                           *)
(*                                                                         *)
(* The classifier works on Python floats.  A double x is written           *)
(* [c |-> c, f |-> f] and stands for exactly                               *)
(*        x = c * (1/12) degree  +  f * (2^-51 / 3) degree.                *)
(* The c part is the position in units of 5 arc-minutes; the f part is a   *)
(* sub-ulp offset, always far below one c unit, so two doubles compare     *)
(* lexicographically.  In these units                                      *)
(*    360.0            = [4320, 0]      30.0 = [360, 0]                    *)
(*    13 + 1/3         = [160, 4]   (the double 13.333333333333334 is      *)
(*                                   40/3 + 2^-49/3: 40/3 rounded up)      *)
(*    (13 + 1/3) / 4   = [40, 1]    (division by 4 is exact)               *)
(*    2^-46            = [0, 96]                                           *)
(*    ulp in [256,512) = [0, 384]   (2^-44)                                *)
(***************************************************************************)

Dbl(c, f) == [c |-> c, f |-> f]

Lt(x, y) == x.c < y.c \/ (x.c = y.c /\ x.f < y.f)

Le(x, y) == x = y \/ Lt(x, y)

\* k * y for an integer k, exact
Times(k, y) == Dbl(k * y.c, k * y.f)

\* x - y, exact
Minus(x, y) == Dbl(x.c - y.c, x.f - y.f)

\* fl(360.0 + x) for -360 < x < 0: the exact sum rounded to the nearest double,
\* ties to the even significand.  Sums on the quarter-degree grid are doubles;
\* a sum s with s.f # 0 lies just below 360, where doubles are 2^-44 apart
\* (384 f-units) and 360.0 itself has an even significand.
Add360(x) ==
    LET s  == Dbl(4320 + x.c, x.f)
        lo == (s.f \div 384) * 384
        hi == lo + 384
        r  == IF s.f - lo < hi - s.f THEN lo
              ELSE IF s.f - lo > hi - s.f THEN hi
              ELSE IF (lo \div 384) % 2 = 0 THEN lo ELSE hi
    IN  IF s.f = 0 THEN s ELSE Dbl(s.c, r)

\* Python float x % 360: fmod(x, 360.0) is exact and has the sign of x; a
\* non-zero negative remainder gets 360.0 added, and that sum is rounded.
PyMod360(x) ==
    IF ~Lt(x, Dbl(0, 0))
    THEN Dbl(x.c % 4320, x.f)
    ELSE LET m == Dbl(-((-x.c) % 4320), x.f)
         IN  IF m = Dbl(0, 0) THEN m ELSE Add360(m)

\* Python float x // y for x >= 0, y > 0: the floor of the exact quotient
FloorDiv(x, y) ==
    LET k == x.c \div y.c
    IN  IF Le(Times(k, y), x) THEN k ELSE k - 1

\* Python float x % y for x >= 0, y > 0: fmod, exact
PyMod(x, y) == Minus(x, Times(FloorDiv(x, y), y))

(***************************************************************************)
(* utils.py: the position classifier                                       *)
(***************************************************************************)

SIGNS ==
    << "Aries", "Taurus", "Gemini", "Cancer", "Leo", "Virgo",
       "Libra", "Scorpio", "Sagittarius", "Capricorn", "Aquarius", "Pisces" >>

NAKSHATRAS ==
    << "Ashwini", "Bharani", "Krittika", "Rohini", "Mrigashirsha", "Ardra",
       "Punarvasu", "Pushya", "Ashlesha", "Magha", "Purva Phalguni",
       "Uttara Phalguni", "Hasta", "Chitra", "Swati", "Vishakha",
       "Anuradha", "Jyeshtha", "Mula", "Purva Ashadha", "Uttara Ashadha",
       "Shravana", "Dhanishta", "Shatabhisha", "Purva Bhadrapada",
       "Uttara Bhadrapada", "Revati" >>

normalize_degrees(degrees) ==
    LET d == PyMod360(degrees)
    IN  IF Lt(d, Dbl(0, 0)) THEN Add360(d) ELSE d

Max(a, b) == IF a >= b THEN a ELSE b

Min(a, b) == IF a <= b THEN a ELSE b

zodiac_sign(longitude) ==
    LET norm_long == normalize_degrees(longitude)
        sign_index == FloorDiv(norm_long, Dbl(360, 0)) % 12
    IN  SIGNS[sign_index + 1]

\* the pair (nakshatra name, pada)
nakshatra_and_pada(moon_longitude) ==
    LET norm_long == normalize_degrees(moon_longitude)
        segment == Dbl(160, 4)
        quarter == Dbl(40, 1)
        nak_index == FloorDiv(norm_long, segment) % Len(NAKSHATRAS)
        pada == FloorDiv(PyMod(norm_long, segment), quarter) + 1
    IN  << NAKSHATRAS[nak_index + 1], Max(1, Min(4, pada)) >>

(***************************************************************************)
(* manglik_detector.py: the Parashara affliction detector                  *)
(*                                                                         *)
(* A value of the planetary_longitudes dict is written [t |-> type, v |->  *)
(* double]: a float, None, or a str (any non-numeric text); the dict itself *)
(* is a function whose DOMAIN is the set of keys present.  An Optional[int] *)
(* is a sequence of length at most one, << >> standing for None.           *)
(***************************************************************************)

MANGLIK_HOUSES == {1, 2, 4, 7, 8, 12}

SEVERITY_SCORES == (1 :> 3) @@ (2 :> 2) @@ (4 :> 3) @@ (7 :> 5) @@ (8 :> 4) @@ (12 :> 2)

ZODIAC_SIGNS ==
    << "Aries", "Taurus", "Gemini", "Cancer", "Leo", "Virgo", "Libra",
       "Scorpio", "Sagittarius", "Capricorn", "Aquarius", "Pisces" >>

MARS_OWN_SIGNS == << "Aries", "Scorpio" >>

MARS_EXALTED_SIGN == "Capricorn"

MARS_DEBILITATED_SIGN == "Cancer"

MARS_FRIEND_SIGNS == << "Leo", "Sagittarius", "Pisces" >>

Float(d) == [t |-> "float", v |-> d]

None == [t |-> "None", v |-> Dbl(0, 0)]

Str == [t |-> "str", v |-> Dbl(0, 0)]

EmptyDict == [k \in {} |-> None]

\* dict.get(key, default)
Get(dict, key, default) == IF key \in DOMAIN dict THEN dict[key] ELSE default

\* SEVERITY_SCORES.get(house, 0)
ScoreOf(house) == IF house \in DOMAIN SEVERITY_SCORES THEN SEVERITY_SCORES[house] ELSE 0

\* a sign taken as half its width
get_sign_number_HalfSigns(longitude) ==
    FloorDiv(PyMod360(longitude), Dbl(180, 0)) % 12

\* int(normalized / 30) % 12.  The quotient is a true division rounded to a
\* double before int() truncates it; for every double below a multiple of 30
\* the rounded quotient stays below the integer, so the truncation is the
\* floor of the exact quotient.
get_sign_number(longitude) ==
    FloorDiv(PyMod360(longitude), Dbl(360, 0)) % 12

get_zodiac_sign(longitude) == ZODIAC_SIGNS[get_sign_number(longitude) + 1]

\* the remainder taken with the sign of the dividend
calculate_house_TruncRem(planet_longitude, reference_longitude) ==
    TruncRem(get_sign_number(planet_longitude) - get_sign_number(reference_longitude), 12) + 1

calculate_house_from_longitude(planet_longitude, reference_longitude) ==
    LET planet_sign == get_sign_number(planet_longitude)
        reference_sign == get_sign_number(reference_longitude)
    IN  ((planet_sign - reference_sign) % 12) + 1

\* one point per cancellation instead of one and a half
dosha_strength_OnePerReason(severity_score, cancellation_count) ==
    IF severity_score = 0 THEN "No Dosha"
    ELSE LET effective == severity_score - cancellation_count
         IN  IF effective <= 0 THEN "Fully Cancelled"
             ELSE IF effective <= 1 THEN "Negligible"
             ELSE IF effective <= 2 THEN "Weak"
             ELSE IF effective <= 3 THEN "Moderate"
             ELSE IF effective <= 4 THEN "Strong"
             ELSE "Very Strong"

\* effective_score = severity_score - cancellation_count * 1.5 is a multiple
\* of one half, exact in binary64; twice_effective is twice that float.
_calculate_dosha_strength(severity_score, cancellation_count) ==
    IF severity_score = 0 THEN "No Dosha"
    ELSE LET twice_effective == 2 * severity_score - 3 * cancellation_count
         IN  IF twice_effective <= 0 THEN "Fully Cancelled"
             ELSE IF twice_effective <= 2 THEN "Negligible"
             ELSE IF twice_effective <= 4 THEN "Weak"
             ELSE IF twice_effective <= 6 THEN "Moderate"
             ELSE IF twice_effective <= 8 THEN "Strong"
             ELSE "Very Strong"

\* A cancellation reason: the Python string is label ": " text, with the
\* placeholder {} of the text replaced by arg.
Reason(label, text, arg) == [label |-> label, text |-> text, arg |-> arg]

\* Libra taken for Mars's own sign in place of Scorpio
SignCancellations_LibraOwn(mars_sign) ==
    IF mars_sign \in {"Aries", "Libra"}
    THEN << Reason("Swakshetra",
                   "Mars in own sign ({}) - significantly reduces dosha per Parashara",
                   mars_sign) >>
    ELSE << >>

\* checks 1 to 4: own sign, exalted, friendly sign, (debilitated: nothing)
SignCancellations(mars_sign) ==
    (IF InList(mars_sign, MARS_OWN_SIGNS)
     THEN << Reason("Swakshetra",
                    "Mars in own sign ({}) - significantly reduces dosha per Parashara",
                    mars_sign) >>
     ELSE << >>)
    \o (IF mars_sign = MARS_EXALTED_SIGN
        THEN << Reason("Uccha",
                       "Mars exalted in Capricorn - greatly reduces dosha effects (Parashara principle)",
                       "") >>
        ELSE << >>)
    \o (IF InList(mars_sign, MARS_FRIEND_SIGNS)
        THEN << Reason("Mitra Rashi",
                       "Mars in friendly sign ({}) - reduces dosha intensity",
                       mars_sign) >>
        ELSE << >>)

\* a reference that was not computed counted as one that does not afflict
PartialDosha_AbsentCounts(mars_house_from_lagna, mars_house_from_moon) ==
    LET is_manglik_lagna == mars_house_from_lagna \in MANGLIK_HOUSES
        is_manglik_moon == mars_house_from_moon # << >>
                               /\ mars_house_from_moon[1] \in MANGLIK_HOUSES
    IN  IF is_manglik_lagna /\ ~is_manglik_moon
        THEN << Reason("Partial Dosha",
                       "Mars creates dosha only from Lagna, not from Moon - reduces intensity",
                       "") >>
        ELSE IF is_manglik_moon /\ ~is_manglik_lagna
        THEN << Reason("Partial Dosha",
                       "Mars creates dosha only from Moon, not from Lagna - reduces intensity",
                       "") >>
        ELSE << >>

\* check 5: affliction from one reference only
PartialDosha(mars_house_from_lagna, mars_house_from_moon) ==
    IF mars_house_from_moon # << >>
    THEN LET is_manglik_lagna == mars_house_from_lagna \in MANGLIK_HOUSES
             is_manglik_moon == mars_house_from_moon[1] \in MANGLIK_HOUSES
         IN  IF is_manglik_lagna /\ ~is_manglik_moon
             THEN << Reason("Partial Dosha",
                            "Mars creates dosha only from Lagna, not from Moon - reduces intensity",
                            "") >>
             ELSE IF is_manglik_moon /\ ~is_manglik_lagna
             THEN << Reason("Partial Dosha",
                            "Mars creates dosha only from Moon, not from Lagna - reduces intensity",
                            "") >>
             ELSE << >>
    ELSE << >>

\* benefic conjunctions: Jupiter, then Venus, in Mars's sign
Conjunctions(planetary_longitudes) ==
    LET mars_longitude == Get(planetary_longitudes, "mars", Float(Dbl(0, 0)))
        mars_sign_num == get_sign_number(mars_longitude.v)
    IN  (IF "jupiter" \in DOMAIN planetary_longitudes
            /\ get_sign_number(planetary_longitudes["jupiter"].v) = mars_sign_num
         THEN << Reason("Guru Yukti",
                        "Mars conjunct Jupiter - benefic influence reduces dosha (Parashara)",
                        "") >>
         ELSE << >>)
        \o (IF "venus" \in DOMAIN planetary_longitudes
               /\ get_sign_number(planetary_longitudes["venus"].v) = mars_sign_num
            THEN << Reason("Shukra Yukti",
                           "Mars conjunct Venus - reduces dosha intensity",
                           "") >>
            ELSE << >>)

_check_parashara_cancellations(mars_sign, mars_house_from_lagna, mars_house_from_moon, kundli_data) ==
    SignCancellations(mars_sign)
    \o PartialDosha(mars_house_from_lagna, mars_house_from_moon)
    \o Conjunctions(Get(kundli_data, "planetary_longitudes", EmptyDict))

\* the dict handed back in place of a result; is_manglik is Python's None
ErrorRecord(error, message) == [error |-> error, is_manglik |-> "None", message |-> message]

\* str(e) of the TypeError that `longitude % 360` raises for a value that is
\* not a number
TypeErrorText(x) ==
    IF x.t = "None" THEN "unsupported operand type(s) for %: 'NoneType' and 'int'"
    ELSE "not all arguments converted during string formatting"

\* the Ascendant looked for before Mars
MissingKey_AscendantFirst(planetary_longitudes) ==
    IF "ascendant" \notin DOMAIN planetary_longitudes
    THEN << ErrorRecord("Ascendant longitude not found in Kundli data",
                        "Please ensure 'ascendant' is present in planetary_longitudes") >>
    ELSE IF "mars" \notin DOMAIN planetary_longitudes
    THEN << ErrorRecord("Mars longitude not found in Kundli data",
                        "Please ensure 'mars' is present in planetary_longitudes") >>
    ELSE << >>

\* the two early returns of detect_manglik: << >> when both keys are present
MissingKey(planetary_longitudes) ==
    IF "mars" \notin DOMAIN planetary_longitudes
    THEN << ErrorRecord("Mars longitude not found in Kundli data",
                        "Please ensure 'mars' is present in planetary_longitudes") >>
    ELSE IF "ascendant" \notin DOMAIN planetary_longitudes
    THEN << ErrorRecord("Ascendant longitude not found in Kundli data",
                        "Please ensure 'ascendant' is present in planetary_longitudes") >>
    ELSE << >>

\* the Moon reference used whenever a moon longitude is there
MoonChecked_IgnoreFlag(check_from_moon, moon_longitude) == moon_longitude.t # "None"

\* self.check_from_moon and moon_longitude is not None
MoonChecked(check_from_moon, moon_longitude) ==
    check_from_moon /\ moon_longitude.t # "None"

\* the lower of the two weights
SeverityScore_Min(is_manglik, mars_house_from_lagna, mars_house_from_moon) ==
    IF is_manglik
    THEN Min(ScoreOf(mars_house_from_lagna),
             IF mars_house_from_moon # << >> THEN ScoreOf(mars_house_from_moon[1]) ELSE 0)
    ELSE 0

\* severity_score; `if mars_house_from_moon:` is false for None and for 0
SeverityScore(is_manglik, mars_house_from_lagna, mars_house_from_moon) ==
    IF is_manglik
    THEN LET score_from_lagna == ScoreOf(mars_house_from_lagna)
             score_from_moon ==
                 IF mars_house_from_moon # << >> /\ mars_house_from_moon[1] # 0
                 THEN ScoreOf(mars_house_from_moon[1])
                 ELSE 0
         IN  Max(score_from_lagna, score_from_moon)
    ELSE 0

SeverityTier(is_manglik, severity_score) ==
    IF ~is_manglik THEN "None"
    ELSE IF severity_score >= 5 THEN "Very High"
    ELSE IF severity_score >= 4 THEN "High"
    ELSE IF severity_score >= 3 THEN "Medium"
    ELSE IF severity_score >= 2 THEN "Low"
    ELSE "Mild"

\* The result dict, or the error dict of an early return or of the except
\* clause.  The longitudes are read in the order mars, ascendant, moon (when
\* the Moon reference is checked); the first that is not a number raises.
\* The free-text fields explanation and recommendation and the rounded
\* mars_longitude are not carried.
detect_manglik(check_from_moon, kundli_data) ==
    LET planetary_longitudes == Get(kundli_data, "planetary_longitudes", EmptyDict)
        missing == MissingKey(planetary_longitudes)
    IN  IF missing # << >> THEN missing[1]
        ELSE
        LET mars_longitude == planetary_longitudes["mars"]
            ascendant_longitude == planetary_longitudes["ascendant"]
            moon_longitude == Get(planetary_longitudes, "moon", None)
            checked == MoonChecked(check_from_moon, moon_longitude)
            operands == << mars_longitude, ascendant_longitude >>
                            \o (IF checked THEN << moon_longitude >> ELSE << >>)
            raising == SelectSeq(operands, LAMBDA x : x.t # "float")
        IN  IF raising # << >>
            THEN ErrorRecord(TypeErrorText(raising[1]), "Error processing Kundli data")
            ELSE
            LET mars_house_from_lagna ==
                    calculate_house_from_longitude(mars_longitude.v, ascendant_longitude.v)
                mars_sign == get_zodiac_sign(mars_longitude.v)
                mars_rashi_number == get_sign_number(mars_longitude.v) + 1
                is_manglik_from_lagna == mars_house_from_lagna \in MANGLIK_HOUSES
                mars_house_from_moon ==
                    IF checked
                    THEN << calculate_house_from_longitude(mars_longitude.v, moon_longitude.v) >>
                    ELSE << >>
                is_manglik_from_moon ==
                    checked /\ mars_house_from_moon[1] \in MANGLIK_HOUSES
                is_manglik == is_manglik_from_lagna \/ is_manglik_from_moon
                severity_score ==
                    SeverityScore(is_manglik, mars_house_from_lagna, mars_house_from_moon)
                cancellations ==
                    _check_parashara_cancellations(mars_sign, mars_house_from_lagna,
                                                   mars_house_from_moon, kundli_data)
            IN  [is_manglik |-> is_manglik,
                 system |-> "Parashara (Parashari)",
                 mars_house_from_lagna |-> mars_house_from_lagna,
                 mars_house_from_moon |-> mars_house_from_moon,
                 is_manglik_from_lagna |-> is_manglik_from_lagna,
                 is_manglik_from_moon |-> is_manglik_from_moon,
                 mars_sign |-> mars_sign,
                 mars_rashi_number |-> mars_rashi_number,
                 severity |-> SeverityTier(is_manglik, severity_score),
                 severity_score |-> severity_score,
                 cancellations |-> cancellations,
                 is_cancelled |-> Len(cancellations) > 0,
                 dosha_strength |->
                     _calculate_dosha_strength(severity_score, Len(cancellations))]

(***************************************************************************)
(* main.py: POST /manglik-compatibility                                    *)
(***************************************************************************)

\* the detector the application creates at start-up
app_state_manglik_detector == [check_from_moon |-> TRUE]

\* compatible only when both partners are afflicted
CompatibilityVerdict_BothOnly(is_manglik1, is_manglik2) ==
    IF is_manglik1 /\ is_manglik2
    THEN [compatible |-> TRUE,
          compatibility_type |-> "Ubhaya Manglik (Both Manglik)",
          reason |-> "Both partners have Manglik Dosha - mutual cancellation",
          recommendation |-> "Favorable per Parashara. Consult Jyotishi."]
    ELSE [compatible |-> FALSE,
          compatibility_type |-> "Partial Manglik",
          reason |-> "Only one partner has Manglik Dosha",
          recommendation |-> "Perform Kumbh Vivah or remedies. Consult Jyotishi."]

CompatibilityVerdict(is_manglik1, is_manglik2) ==
    IF is_manglik1 /\ is_manglik2
    THEN [compatible |-> TRUE,
          compatibility_type |-> "Ubhaya Manglik (Both Manglik)",
          reason |-> "Both partners have Manglik Dosha - mutual cancellation",
          recommendation |-> "Favorable per Parashara. Consult Jyotishi."]
    ELSE IF ~is_manglik1 /\ ~is_manglik2
    THEN [compatible |-> TRUE,
          compatibility_type |-> "No Manglik Dosha",
          reason |-> "Neither partner has Manglik Dosha",
          recommendation |-> "No Manglik concerns."]
    ELSE [compatible |-> FALSE,
          compatibility_type |-> "Partial Manglik",
          reason |-> "Only one partner has Manglik Dosha",
          recommendation |-> "Perform Kumbh Vivah or remedies. Consult Jyotishi."]

\* The HTTP response: status 400 with the detail text (a plain string,
\* written [text |-> ...]), or status 200 with
\* the verdict and both analyses.  ManglikResponse(**raw) keeps every field
\* of a detection result as it is.
ManglikCompatibilityResponse(result1_raw, result2_raw) ==
    IF "error" \in DOMAIN result1_raw \/ "error" \in DOMAIN result2_raw
    THEN [status_code |-> 400, detail |-> [text |-> "Invalid data"]]
    ELSE [status_code |-> 200,
          verdict |-> CompatibilityVerdict(result1_raw.is_manglik, result2_raw.is_manglik),
          person1_analysis |-> result1_raw,
          person2_analysis |-> result2_raw]

manglik_compatibility_api(person1_longitudes, person2_longitudes) ==
    LET kundli1 == [planetary_longitudes |-> person1_longitudes]
        kundli2 == [planetary_longitudes |-> person2_longitudes]
        result1_raw == detect_manglik(app_state_manglik_detector.check_from_moon, kundli1)
        result2_raw == detect_manglik(app_state_manglik_detector.check_from_moon, kundli2)
    IN  ManglikCompatibilityResponse(result1_raw, result2_raw)

(***************************************************************************)
(* astrology.py: calculate_confidence                                      *)
(***************************************************************************)

\* 0.5 is [6, 0], 29.5 is [354, 0]; nakshatra_boundary - 0.5 is exact.  The
\* longitudes are non-negative, so each % is the exact remainder.
calculate_confidence(moon_long, asc_long) ==
    LET nakshatra_boundary == Dbl(160, 4)
        moon_pos == PyMod(moon_long, nakshatra_boundary)
        after_moon ==
            IF Lt(moon_pos, Dbl(6, 0))
               \/ Lt(Minus(nakshatra_boundary, Dbl(6, 0)), moon_pos)
            THEN 100 - 5 ELSE 100
        asc_pos == PyMod(asc_long, Dbl(360, 0))
        confidence ==
            IF Lt(asc_pos, Dbl(6, 0)) \/ Lt(Dbl(354, 0), asc_pos)
            THEN after_moon - 5 ELSE after_moon
    IN  Max(confidence, 0)

(***************************************************************************)
(* astrology.py: generate_kundli                                           *)
(*                                                                         *)
(* An exception is written [type |-> class, text |-> message with the      *)
(* placeholder {}, arg |-> what fills the placeholder]; a function that    *)
(* can raise returns << >> or the one exception it raised.  The ephemeris  *)
(* (swisseph) is a collaborator: swe gives, for each of its four position  *)
(* calls, whether the call succeeds and the double it returns.  The calls  *)
(* made are logged in the order they happen.                               *)
(***************************************************************************)

Exception(type, text, arg) == [type |-> type, text |-> text, arg |-> arg]

\* -90 is [-1080, 0], 90 is [1080, 0], 180 is [2160, 0]
validate_coordinates(latitude, longitude) ==
    IF ~(Le(Dbl(-1080, 0), latitude) /\ Le(latitude, Dbl(1080, 0)))
    THEN << Exception("ValueError", "Latitude must be between -90 and 90, got {}", latitude) >>
    ELSE IF ~(Le(Dbl(-2160, 0), longitude) /\ Le(longitude, Dbl(2160, 0)))
    THEN << Exception("ValueError", "Longitude must be between -180 and 180, got {}", longitude) >>
    ELSE << >>

\* The strings datetime.strptime accepts for "%d-%m-%Y" and "%I:%M %p", the
\* zone names pytz knows, and the local times pytz cannot localize with
\* is_dst=None (10 March 2024, 02:30 in New York falls in the DST gap), among
\* the strings the requests of this model carry.
WellFormedDates == {"13-01-2007", "10-03-2024"}

WellFormedTimes == {"06:47 PM", "02:30 AM"}

KnownTimezones == {"Asia/Kolkata", "America/New_York"}

NotLocalizable(date_str, time_str, timezone_str) ==
    date_str = "10-03-2024" /\ time_str = "02:30 AM" /\ timezone_str = "America/New_York"

\* The outcome of parse_datetime: what it raised and the ephemeris calls it
\* made.  strptime comes first, then the zone lookup, then localize; a
\* ValueError of any of them is re-raised with the format hint, the pytz
\* InvalidTimeError of localize (not a ValueError) passes through as it is.
\* The Julian day itself is only handed on to the ephemeris.
parse_datetime(date_str, time_str, timezone_str) ==
    IF date_str \notin WellFormedDates \/ time_str \notin WellFormedTimes
    THEN [raised |-> << Exception("ValueError",
                                  "Invalid date/time format: {}. Expected format: 'DD-MM-YYYY HH:MM AM/PM'",
                                  "time data does not match format '%d-%m-%Y %I:%M %p'") >>,
          calls |-> << >>]
    ELSE IF timezone_str \notin KnownTimezones
    THEN [raised |-> << Exception("ValueError",
                                  "Invalid date/time format: Unknown timezone: {}. Expected format: 'DD-MM-YYYY HH:MM AM/PM'",
                                  timezone_str) >>,
          calls |-> << >>]
    ELSE IF NotLocalizable(date_str, time_str, timezone_str)
    THEN [raised |-> << Exception("NonExistentTimeError", "{}", date_str) >>,
          calls |-> << >>]
    ELSE [raised |-> << >>, calls |-> << "swe.julday" >>]

\* the four position calls, in the order the code makes them
PositionCalls == << "swe.houses", "swe.get_ayanamsa_ut", "swe.calc_ut(SUN)", "swe.calc_ut(MOON)" >>

\* what the ephemeris answers to a position call
Answer(swe, call) ==
    CASE call = "swe.houses" -> swe.houses
      [] call = "swe.get_ayanamsa_ut" -> swe.ayanamsa
      [] call = "swe.calc_ut(SUN)" -> swe.sun
      [] call = "swe.calc_ut(MOON)" -> swe.moon

\* a failed call is made again until all four calls have been made
CallsMade_Retry(swe) == PositionCalls

\* the position calls made: all up to and including the first that fails
CallsMade(swe) ==
    LET failing == { i \in 1..Len(PositionCalls) : ~Answer(swe, PositionCalls[i]).ok }
    IN  IF failing = {} THEN PositionCalls
        ELSE SubSeq(PositionCalls, 1, CHOOSE i \in failing : \A j \in failing : i <= j)

\* The outcome of calculate_planetary_positions: any exception of a call is
\* re-raised as RuntimeError.  asc_tropical - ayan is exact for the doubles
\* of this model (both on the quarter-degree grid up to a multiple of the
\* ulp of 360); `% 360.0` rounds as PyMod360 does.
calculate_planetary_positions(swe) ==
    LET calls == CallsMade(swe)
    IN  IF ~Answer(swe, calls[Len(calls)]).ok
        THEN [raised |-> << Exception("RuntimeError", "Astronomical calculation failed: {}",
                                      calls[Len(calls)]) >>,
              calls |-> calls,
              positions |-> << >>]
        ELSE [raised |-> << >>,
              calls |-> calls,
              positions |-> << [sun_long |-> swe.sun.v,
                                moon_long |-> swe.moon.v,
                                asc_long |-> PyMod360(Minus(swe.houses.v, swe.ayanamsa.v))] >>]

\* round(x, 6) for a double within half a micro-degree of the quarter-degree
\* grid: the grid point (a decimal with two places).  Every f part of this
\* model is far below half a micro-degree.
round6(x) == Dbl(x.c, 0)

\* The outcome of generate_kundli: what it raised or the chart it returned
\* (a sequence of length at most one), with the ephemeris calls made.  Of
\* the metadata, calculation_time is not carried.
generate_kundli(data, swe) ==
    LET invalid == validate_coordinates(data.latitude, data.longitude)
        parsed == parse_datetime(data.date, data.time, data.timezone)
        computed == calculate_planetary_positions(swe)
    IN  IF invalid # << >>
        THEN [raised |-> invalid, calls |-> << >>, chart |-> << >>]
        ELSE IF parsed.raised # << >>
        THEN [raised |-> parsed.raised, calls |-> parsed.calls, chart |-> << >>]
        ELSE IF computed.raised # << >>
        THEN [raised |-> computed.raised, calls |-> parsed.calls \o computed.calls,
              chart |-> << >>]
        ELSE
        LET positions == computed.positions[1]
            sun_sign == zodiac_sign(positions.sun_long)
            moon_sign == zodiac_sign(positions.moon_long)
            asc_sign == zodiac_sign(positions.asc_long)
            nak == nakshatra_and_pada(positions.moon_long)
            confidence == calculate_confidence(positions.moon_long, positions.asc_long)
        IN  [raised |-> << >>,
             calls |-> parsed.calls \o computed.calls,
             chart |-> << [sun_sign |-> sun_sign,
                           moon_sign |-> moon_sign,
                           ascendant |-> asc_sign,
                           nakshatra |-> nak[1],
                           nakshatra_pada |-> nak[2],
                           ayanamsa |-> "Lahiri",
                           planetary_longitudes |->
                               [sun |-> Float(round6(positions.sun_long)),
                                moon |-> Float(round6(positions.moon_long)),
                                ascendant |-> Float(round6(positions.asc_long))],
                           metadata |-> [timezone |-> data.timezone,
                                         coordinates |-> [latitude |-> data.latitude,
                                                          longitude |-> data.longitude]],
                           confidence |-> confidence] >>]

(***************************************************************************)
(* models.py and main.py: the HTTP boundary                                *)
(*                                                                         *)
(* A response is written [status_code |-> ..., ...] with the top-level     *)
(* keys of its JSON body: `detail` for an HTTPException (FastAPI answers   *)
(* {"detail": detail}), `body` for a 200.  A detail that is a dict is a    *)
(* record of its keys; a detail that is a plain string s is written        *)
(* [text |-> s].  Requests are taken to be within the rate limit and the   *)
(* size limit.                                                             *)
(***************************************************************************)

RashiEnum ==
    { "Aries", "Taurus", "Gemini", "Cancer", "Leo", "Virgo", "Libra", "Scorpio",
      "Sagittarius", "Capricorn", "Aquarius", "Pisces" }

NakshatraEnum ==
    { "Ashwini", "Bharani", "Krittika", "Rohini", "Mrigashira", "Ardra",
      "Punarvasu", "Pushya", "Ashlesha", "Magha", "Purva Phalguni",
      "Uttara Phalguni", "Hasta", "Chitra", "Swati", "Vishakha", "Anuradha",
      "Jyeshtha", "Mula", "Purva Ashadha", "Uttara Ashadha", "Shravana",
      "Dhanishta", "Shatabhisha", "Purva Bhadrapada", "Uttara Bhadrapada",
      "Revati" }

\* KundliRequest: latitude and longitude must be numbers
KundliRequestValid(body) == body.latitude.t = "float" /\ body.longitude.t = "float"

\* CompatibilityRequest: both profiles must use the enumerations
CompatibilityRequestValid(body) ==
    /\ body.bride.moon_sign \in RashiEnum
    /\ body.bride.nakshatra \in NakshatraEnum
    /\ body.groom.moon_sign \in RashiEnum
    /\ body.groom.nakshatra \in NakshatraEnum

\* ManglikRequest: planetary_longitudes is required (any dict will do)
ManglikRequestValid(body) == "planetary_longitudes" \in DOMAIN body

\* ManglikCompatibilityRequest: both dicts are required
ManglikCompatibilityRequestValid(body) ==
    {"person1_longitudes", "person2_longitudes"} \subseteq DOMAIN body

\* the answer to a body that does not match the schema; the keys details
\* and request_id are not carried
validation_exception_handler ==
    [status_code |-> 422, error |-> "Validation Error", message |-> "Invalid input data"]

\* every HTTPException answered as a server error
HTTPException_ServerError(status_code, detail) == [status_code |-> 500, detail |-> detail]

HTTPException(status_code, detail) == [status_code |-> status_code, detail |-> detail]

\* the dependency of every POST route: texts with a dangerous pattern,
\* among the texts the requests of this model carry
DangerousTexts == { "<script>alert(1)</script>" }

validate_input_safety(texts) ==
    IF texts \cap DangerousTexts # {}
    THEN << HTTPException(400, [text |-> "Invalid characters detected"]) >>
    ELSE << >>

\* KundliResponse keeps these keys of the chart
KundliResponse(chart) ==
    [k \in {"sun_sign", "moon_sign", "ascendant", "nakshatra", "nakshatra_pada",
            "ayanamsa", "planetary_longitudes", "confidence"} |-> chart[k]]

generate_kundli_api(kundli_request, swe) ==
    LET data == [date |-> kundli_request.date,
                 time |-> kundli_request.time,
                 timezone |-> kundli_request.timezone,
                 latitude |-> kundli_request.latitude.v,
                 longitude |-> kundli_request.longitude.v]
        result == generate_kundli(data, swe)
    IN  IF result.raised = << >>
        THEN [status_code |-> 200, body |-> KundliResponse(result.chart[1])]
        ELSE IF result.raised[1].type = "ValueError"
        THEN HTTPException(400, [error |-> "Invalid Input",
                                 message |-> [text |-> result.raised[1].text,
                                              arg |-> result.raised[1].arg]])
        ELSE HTTPException(500, [error |-> "Internal Server Error"])

calculate_compatibility_api(comp_request) ==
    LET result == generate_ashta_koota(comp_request.bride.moon_sign,
                                       comp_request.bride.nakshatra,
                                       comp_request.groom.moon_sign,
                                       comp_request.groom.nakshatra)
    IN  IF result.raised = ""
        THEN [status_code |-> 200, body |-> result.ret[1]]
        ELSE HTTPException(400, [error |-> "Invalid Input",
                                 message |-> [text |-> "Invalid {}: {}",
                                              arg |-> << result.field, result.value >>]])

\* the detector's error text and message are handed to the caller
\* (manglik_detector is request.app.state.manglik_detector)
detect_manglik_api(manglik_detector, manglik_request) ==
    LET kundli_data == [planetary_longitudes |-> manglik_request["planetary_longitudes"]]
        result == detect_manglik(manglik_detector.check_from_moon, kundli_data)
    IN  IF "error" \in DOMAIN result
        THEN HTTPException(400, [error |-> result.error, message |-> result.message])
        ELSE [status_code |-> 200, body |-> result]

\* FastAPI's handling of a POST: the dependency, then the schema, then the
\* route's function
RouteGenerateKundli(body, swe) ==
    IF validate_input_safety({body.date, body.time, body.timezone}) # << >>
    THEN validate_input_safety({body.date, body.time, body.timezone})[1]
    ELSE IF ~KundliRequestValid(body) THEN validation_exception_handler
    ELSE generate_kundli_api(body, swe)

RouteCalculateCompatibility(body) ==
    LET texts == {body.bride.moon_sign, body.bride.nakshatra,
                  body.groom.moon_sign, body.groom.nakshatra}
    IN  IF validate_input_safety(texts) # << >> THEN validate_input_safety(texts)[1]
        ELSE IF ~CompatibilityRequestValid(body) THEN validation_exception_handler
        ELSE calculate_compatibility_api(body)

\* (the longitudes of this model carry no text with a dangerous pattern)
RouteDetectManglik(manglik_detector, body) ==
    IF validate_input_safety({}) # << >> THEN validate_input_safety({})[1]
    ELSE IF ~ManglikRequestValid(body) THEN validation_exception_handler
    ELSE detect_manglik_api(manglik_detector, body)

RouteManglikCompatibility(body) ==
    IF validate_input_safety({}) # << >> THEN validate_input_safety({})[1]
    ELSE IF ~ManglikCompatibilityRequestValid(body) THEN validation_exception_handler
    ELSE manglik_compatibility_api(body["person1_longitudes"], body["person2_longitudes"])

\* what a handler leaves in app.state.manglik_detector: the detector it
\* found there (the handlers read it and never assign to it)
DetectorAfter_StoresFlag(manglik_detector, body) ==
    [check_from_moon |-> body["check_from_moon"]]

DetectorAfter(manglik_detector, body) == manglik_detector

(***************************************************************************)
(* The state machine: one action per public function.  The functions hold  *)
(* no state between calls, so every call starts from the idle state and    *)
(* Return brings the caller back to it.                                    *)
(***************************************************************************)

\* Largest |longitude| of the quarter-degree grid, in quarter degrees
QMax == 2900

\* Largest sub-ulp input near zero, in multiples of 2^-46 degree
TinyMax == 8

\* The doubles the classifier is called with: the quarter-degree grid over
\* [-QMax/4, QMax/4], and the doubles t * 2^-46 next to zero.
Doubles ==
    { Dbl(3 * q, 0) : q \in -QMax..QMax } \cup { Dbl(0, 96 * t) : t \in -TinyMax..TinyMax }

\* The strings the scorer is called with: the enumerations and one string
\* outside each (for nakshatras, the spelling utils.py uses).
SignInputs == { RASHI_ORDER[i] : i \in 1..Len(RASHI_ORDER) } \cup { "Ophiuchus" }

NakshatraInputs ==
    { NAKSHATRA_ORDER[i] : i \in 1..Len(NAKSHATRA_ORDER) } \cup { "Mrigashirsha" }

NoOutput == [norm |-> Dbl(0, 0), sign |-> "", nak |-> "", pada |-> 0]

\* Largest |longitude| handed to calculate_house_from_longitude, in steps of
\* 7.5 degrees
HouseMax == 52

\* The longitudes calculate_house_from_longitude is called with: every 7.5
\* degrees over [-7.5 HouseMax, 7.5 HouseMax], and 2^-46 either side of zero.
HouseLongitudes ==
    { Dbl(90 * q, 0) : q \in -HouseMax..HouseMax } \cup { Dbl(0, -96), Dbl(0, 96) }

\* a key left out of the dict
Absent == [t |-> "absent", v |-> Dbl(0, 0)]

\* The double 49.464221 of the request example.  It lies between the grid
\* points 593/12 and 594/12; the detector reads a longitude only through
\* `% 360` and the quotient by 30, which look at the f part only where the c
\* part is a multiple of 360, so the offset from 593/12 is carried as f = 32.
Asc49 == Dbl(593, 32)

\* Mars: 10.5 degrees into each sign (190.5 and 220.5 among them), -2^-46,
\* -0.25, 360.0, None, a text, or no key
MarsInputs ==
    { Float(Dbl(360 * k + 126, 0)) : k \in 0..11 }
        \cup { Float(Dbl(0, -96)), Float(Dbl(-3, 0)), Float(Dbl(4320, 0)), None, Str, Absent }

\* Ascendant: the start of each sign, 49.464221, 250.0, None, or no key
AscendantInputs ==
    { Float(Dbl(360 * k, 0)) : k \in 0..11 }
        \cup { Float(Asc49), Float(Dbl(3000, 0)), None, Absent }

\* Moon: 29.75 degrees into each sign, None, a text, or no key
MoonInputs ==
    { Float(Dbl(360 * k + 357, 0)) : k \in 0..11 } \cup { None, Str, Absent }

\* Jupiter: 10.5 (Aries), 220.5 (Scorpio), or no key
JupiterInputs == { Float(Dbl(126, 0)), Float(Dbl(2646, 0)), Absent }

\* Venus: 10.5 (Aries), or no key
VenusInputs == { Float(Dbl(126, 0)), Absent }

\* the planetary_longitudes dict with the keys that are not left out
MakeDict(mars, ascendant, moon, jupiter, venus) ==
    LET all == ("mars" :> mars) @@ ("ascendant" :> ascendant) @@ ("moon" :> moon)
                   @@ ("jupiter" :> jupiter) @@ ("venus" :> venus)
    IN  [k \in { x \in DOMAIN all : all[x].t # "absent" } |-> all[k]]

\* The dicts a person of the compatibility request comes with: Mars 10.5
\* degrees into a sign, None or missing; Ascendant 0.0, 49.464221, 250.0 or
\* missing; Moon 125.25, 300.0 or missing.
PersonInputs ==
    { MakeDict(m, a, mo, Absent, Absent) :
          m \in { Float(Dbl(360 * k + 126, 0)) : k \in 0..11 } \cup { None, Absent },
          a \in { Float(Dbl(0, 0)), Float(Asc49), Float(Dbl(3000, 0)), Absent },
          mo \in { Float(Dbl(1503, 0)), Float(Dbl(3600, 0)), Absent } }

\* Largest Moon longitude handed to calculate_confidence, in quarter degrees
MoonQMax == 360

\* Largest Ascendant longitude of the grid handed to calculate_confidence,
\* in quarter degrees
AscQMax == 180

\* generate_kundli passes longitudes already reduced to [0, 360]
MoonLongitudes == { Dbl(3 * q, 0) : q \in 0..MoonQMax }

AscLongitudes == { Dbl(3 * q, 0) : q \in 0..AscQMax } \cup { Dbl(4320, 0) }

(* generate_kundli and the HTTP routes *)

\* Latitudes 30.25, 90.25 and -90.0; longitudes 74.75 and -180.25
Latitudes == { Dbl(363, 0), Dbl(1083, 0), Dbl(-1080, 0) }

Longitudes == { Dbl(897, 0), Dbl(-2163, 0) }

\* the well-formed strings and one string strptime or pytz refuses
DateStrings == WellFormedDates \cup { "2007-01-13" }

TimeStrings == WellFormedTimes \cup { "18:47" }

TimezoneStrings == KnownTimezones \cup { "Mars/Olympus" }

KundliData ==
    [date : DateStrings, time : TimeStrings, timezone : TimezoneStrings,
     latitude : Latitudes, longitude : Longitudes]

\* an ephemeris call that returns v, and one that raises
Ok(v) == [ok |-> TRUE, v |-> v]

Failed == [ok |-> FALSE, v |-> Dbl(0, 0)]

\* Sun and Moon longitudes as swe.calc_ut returns them, in [0, 360): 0.0,
\* 10.5, 30.0, 40.0, 60.0, 125.25, and the doubles just below 30 and 360
SunAnswers ==
    { Ok(Dbl(126, 0)), Ok(Dbl(360, -24)), Ok(Dbl(360, 0)), Ok(Dbl(4320, -384)), Failed }

MoonAnswers ==
    { Ok(Dbl(0, 0)), Ok(Dbl(480, 0)), Ok(Dbl(720, 0)), Ok(Dbl(360, -24)),
      Ok(Dbl(1503, 0)), Ok(Dbl(4320, -384)), Failed }

\* Tropical ascendants 24.0, 24 - 2^-44, 24 - 2^-46, 54 - 2^-47 and 274.0
\* against the ayanamsa 24.0
HousesAnswers ==
    { Ok(Dbl(288, 0)), Ok(Dbl(288, -384)), Ok(Dbl(288, -96)), Ok(Dbl(648, -48)),
      Ok(Dbl(3288, 0)), Failed }

AyanamsaAnswers == { Ok(Dbl(288, 0)), Failed }

Ephemerides ==
    [houses : HousesAnswers, ayanamsa : AyanamsaAnswers, sun : SunAnswers, moon : MoonAnswers]

\* the ephemerides behind the HTTP requests: all calls succeed, or one fails
HttpEphemerides ==
    { [houses |-> Ok(Dbl(3288, 0)), ayanamsa |-> Ok(Dbl(288, 0)),
       sun |-> Ok(Dbl(126, 0)), moon |-> Ok(Dbl(1503, 0))],
      [houses |-> Ok(Dbl(3288, 0)), ayanamsa |-> Ok(Dbl(288, 0)),
       sun |-> Failed, moon |-> Ok(Dbl(1503, 0))] }

\* JSON bodies of POST /generate-kundli: the strings above or a text with a
\* script tag as timezone; the latitude a number or a text
KundliBodies ==
    [date : DateStrings, time : TimeStrings, timezone : TimezoneStrings \cup DangerousTexts,
     latitude : { Float(x) : x \in Latitudes } \cup { Str },
     longitude : { Float(x) : x \in Longitudes }]

\* JSON bodies of POST /calculate-compatibility
ProfileInputs ==
    [moon_sign : { "Aries", "Scorpio", "Ophiuchus" },
     nakshatra : { "Ashwini", "Mrigashira", "Mrigashirsha" }]

CompatibilityBodies == [bride : ProfileInputs, groom : ProfileInputs]

\* the dicts of the affliction routes: Mars 10.5 or 220.5, None or missing;
\* Ascendant 0.0, 49.464221 or missing; Moon 125.25, 300.0 or missing
HttpDicts ==
    { MakeDict(m, a, mo, Absent, Absent) :
          m \in { Float(Dbl(126, 0)), Float(Dbl(2646, 0)), None, Absent },
          a \in { Float(Dbl(0, 0)), Float(Asc49), Absent },
          mo \in { Float(Dbl(1503, 0)), Float(Dbl(3600, 0)), Absent } }

\* JSON bodies of POST /detect-manglik, with and without the required key
ManglikBodies ==
    [planetary_longitudes : HttpDicts, check_from_moon : BOOLEAN]
        \cup [check_from_moon : BOOLEAN]

\* JSON bodies of POST /manglik-compatibility, with and without
\* person2_longitudes
ManglikCompatibilityBodies ==
    [person1_longitudes : HttpDicts, person2_longitudes : HttpDicts,
     check_from_moon : BOOLEAN]
        \cup [person1_longitudes : HttpDicts, check_from_moon : BOOLEAN]

(* the server with several requests in flight *)

\* Number of requests the server handles at the same time
MaxRequests == 2

Slots == 1..MaxRequests

\* Mars 220.5 with Ascendant 49.464221 and Moon 125.25 (afflicted from
\* both); Mars 10.5 with Ascendant 0.0 and Moon 300.0 (afflicted from the
\* Lagna only)
ServeDicts ==
    { MakeDict(Float(Dbl(2646, 0)), Float(Asc49), Float(Dbl(1503, 0)), Absent, Absent),
      MakeDict(Float(Dbl(126, 0)), Float(Dbl(0, 0)), Float(Dbl(3600, 0)), Absent, Absent) }

ServeRequests ==
    { [route |-> "/detect-manglik", body |-> b] :
          b \in [planetary_longitudes : ServeDicts \cup { MakeDict(None, Float(Dbl(0, 0)), Absent, Absent, Absent) },
                 check_from_moon : BOOLEAN] }
    \cup { [route |-> "/manglik-compatibility", body |-> b] :
          b \in [person1_longitudes : ServeDicts, person2_longitudes : ServeDicts,
                 check_from_moon : BOOLEAN] }
    \cup { [route |-> "/calculate-compatibility", body |-> b] :
          b \in [bride : { [moon_sign |-> "Aries", nakshatra |-> "Ashwini"] },
                 groom : { [moon_sign |-> "Aries", nakshatra |-> "Ashwini"],
                           [moon_sign |-> "Scorpio", nakshatra |-> "Mrigashira"] }] }

\* a slot without a request, and the progress of a handler
NoRequest == [route |-> "", body |-> << >>]

Progress(pc, partial, response) == [pc |-> pc, partial |-> partial, response |-> response]

Init ==
    /\ op = "none"
    /\ kin = [bride_moon_sign |-> "", bride_nakshatra |-> "",
              groom_moon_sign |-> "", groom_nakshatra |-> ""]
    /\ kout = [raised |-> "", field |-> "", value |-> "", ret |-> << >>]
    /\ lon = Dbl(0, 0)
    /\ out = NoOutput
    /\ din = << >>
    /\ dout = << >>
    /\ detector = app_state_manglik_detector

CallAshtaKoota ==
    /\ op = "none"
    /\ \E bs \in SignInputs, bn \in NakshatraInputs, gs \in SignInputs, gn \in NakshatraInputs :
        /\ op' = "generate_ashta_koota"
        /\ kin' = [bride_moon_sign |-> bs, bride_nakshatra |-> bn,
                   groom_moon_sign |-> gs, groom_nakshatra |-> gn]
        /\ kout' = generate_ashta_koota(bs, bn, gs, gn)
        /\ UNCHANGED <<lon, out, din, dout, detector>>

CallNormalizeDegrees ==
    /\ op = "none"
    /\ \E d \in Doubles :
        /\ op' = "normalize_degrees"
        /\ lon' = d
        /\ out' = [NoOutput EXCEPT !.norm = normalize_degrees(d)]
        /\ UNCHANGED <<kin, kout, din, dout, detector>>

CallZodiacSign ==
    /\ op = "none"
    /\ \E d \in Doubles :
        /\ op' = "zodiac_sign"
        /\ lon' = d
        /\ out' = [NoOutput EXCEPT !.sign = zodiac_sign(d)]
        /\ UNCHANGED <<kin, kout, din, dout, detector>>

CallNakshatraAndPada ==
    /\ op = "none"
    /\ \E d \in Doubles :
        /\ op' = "nakshatra_and_pada"
        /\ lon' = d
        /\ out' = [NoOutput EXCEPT !.nak = nakshatra_and_pada(d)[1],
                                   !.pada = nakshatra_and_pada(d)[2]]
        /\ UNCHANGED <<kin, kout, din, dout, detector>>

CallHouseFromLongitude ==
    /\ op = "none"
    /\ \E planet \in HouseLongitudes, reference \in HouseLongitudes :
        /\ op' = "calculate_house_from_longitude"
        /\ din' = [planet_longitude |-> planet, reference_longitude |-> reference]
        /\ dout' = [house |-> calculate_house_from_longitude(planet, reference)]
        /\ UNCHANGED <<kin, kout, lon, out, detector>>

\* detect_manglik on a detector built with either value of check_from_moon;
\* kundli_data has the key planetary_longitudes or is empty.
CallDetectManglik ==
    /\ op = "none"
    /\ \E check_from_moon \in BOOLEAN, has_key \in BOOLEAN,
          m \in MarsInputs, a \in AscendantInputs, mo \in MoonInputs,
          j \in JupiterInputs, v \in VenusInputs :
        LET kundli_data == IF has_key
                           THEN [planetary_longitudes |-> MakeDict(m, a, mo, j, v)]
                           ELSE EmptyDict
        IN  /\ op' = "detect_manglik"
            /\ din' = [check_from_moon |-> check_from_moon, kundli_data |-> kundli_data]
            /\ dout' = detect_manglik(check_from_moon, kundli_data)
            /\ UNCHANGED <<kin, kout, lon, out, detector>>

CallManglikCompatibility ==
    /\ op = "none"
    /\ \E p1 \in PersonInputs, p2 \in PersonInputs :
        /\ op' = "manglik_compatibility_api"
        /\ din' = [person1_longitudes |-> p1, person2_longitudes |-> p2]
        /\ dout' = manglik_compatibility_api(p1, p2)
        /\ UNCHANGED <<kin, kout, lon, out, detector>>

CallCalculateConfidence ==
    /\ op = "none"
    /\ \E moon_long \in MoonLongitudes, asc_long \in AscLongitudes :
        /\ op' = "calculate_confidence"
        /\ din' = [moon_long |-> moon_long, asc_long |-> asc_long]
        /\ dout' = [confidence |-> calculate_confidence(moon_long, asc_long)]
        /\ UNCHANGED <<kin, kout, lon, out, detector>>

CallGenerateKundli ==
    /\ op = "none"
    /\ \E data \in KundliData, swe \in Ephemerides :
        /\ op' = "generate_kundli"
        /\ din' = [data |-> data, swe |-> swe]
        /\ dout' = generate_kundli(data, swe)
        /\ UNCHANGED <<kin, kout, lon, out, detector>>

\* The chart's planetary_longitudes handed unchanged to the application's
\* detector.
CallDetectManglikOnChart ==
    /\ op = "generate_kundli"
    /\ dout.chart # << >>
    /\ op' = "detect_manglik(chart)"
    /\ din' = [check_from_moon |-> detector.check_from_moon,
               kundli_data |-> [planetary_longitudes |-> dout.chart[1].planetary_longitudes]]
    /\ dout' = detect_manglik(detector.check_from_moon,
                              [planetary_longitudes |-> dout.chart[1].planetary_longitudes])
    /\ UNCHANGED <<kin, kout, lon, out, detector>>

PostGenerateKundli ==
    /\ op = "none"
    /\ \E body \in KundliBodies, swe \in HttpEphemerides :
        /\ op' = "POST /generate-kundli"
        /\ din' = [body |-> body, swe |-> swe]
        /\ dout' = RouteGenerateKundli(body, swe)
        /\ UNCHANGED <<kin, kout, lon, out, detector>>

PostCalculateCompatibility ==
    /\ op = "none"
    /\ \E body \in CompatibilityBodies :
        /\ op' = "POST /calculate-compatibility"
        /\ din' = [body |-> body]
        /\ dout' = RouteCalculateCompatibility(body)
        /\ UNCHANGED <<kin, kout, lon, out, detector>>

PostDetectManglik ==
    /\ op = "none"
    /\ \E body \in ManglikBodies :
        /\ op' = "POST /detect-manglik"
        /\ din' = [body |-> body]
        /\ dout' = RouteDetectManglik(detector, body)
        /\ detector' = DetectorAfter(detector, body)
        /\ UNCHANGED <<kin, kout, lon, out>>

PostManglikCompatibility ==
    /\ op = "none"
    /\ \E body \in ManglikCompatibilityBodies :
        /\ op' = "POST /manglik-compatibility"
        /\ din' = [body |-> body]
        /\ dout' = RouteManglikCompatibility(body)
        /\ detector' = DetectorAfter(detector, body)
        /\ UNCHANGED <<kin, kout, lon, out>>

\* The server starts to take requests: every slot is free.
Serve ==
    /\ op = "none"
    /\ op' = "serve"
    /\ din' = [s \in Slots |-> NoRequest]
    /\ dout' = [s \in Slots |-> Progress("idle", << >>, << >>)]
    /\ UNCHANGED <<kin, kout, lon, out, detector>>

\* A request arrives and its handler is scheduled.
Receive(s) ==
    /\ op = "serve"
    /\ dout[s].pc = "idle"
    /\ \E r \in ServeRequests :
        /\ din' = [din EXCEPT ![s] = r]
        /\ dout' = [dout EXCEPT ![s] = Progress("handler", << >>, << >>)]
    /\ UNCHANGED <<op, kin, kout, lon, out, detector>>

\* detect_manglik_api runs: one call of the shared detector.
HandleDetectManglik(s) ==
    /\ op = "serve"
    /\ din[s].route = "/detect-manglik"
    /\ dout[s].pc = "handler"
    /\ dout' = [dout EXCEPT ![s] =
                    Progress("done", << >>, << RouteDetectManglik(detector, din[s].body) >>)]
    /\ detector' = DetectorAfter(detector, din[s].body)
    /\ UNCHANGED <<op, kin, kout, lon, out, din>>

\* manglik_compatibility_api up to its first call of the shared detector
HandlePerson1(s) ==
    /\ op = "serve"
    /\ din[s].route = "/manglik-compatibility"
    /\ dout[s].pc = "handler"
    /\ LET kundli1 == [planetary_longitudes |-> din[s].body["person1_longitudes"]]
           result1_raw == detect_manglik(detector.check_from_moon, kundli1)
       IN  dout' = [dout EXCEPT ![s] = Progress("person2", << result1_raw >>, << >>)]
    /\ detector' = DetectorAfter(detector, din[s].body)
    /\ UNCHANGED <<op, kin, kout, lon, out, din>>

\* manglik_compatibility_api from its second call of the shared detector on
HandlePerson2(s) ==
    /\ op = "serve"
    /\ din[s].route = "/manglik-compatibility"
    /\ dout[s].pc = "person2"
    /\ LET kundli2 == [planetary_longitudes |-> din[s].body["person2_longitudes"]]
           result2_raw == detect_manglik(detector.check_from_moon, kundli2)
       IN  dout' = [dout EXCEPT ![s] =
                        Progress("done", << >>,
                                 << ManglikCompatibilityResponse(dout[s].partial[1], result2_raw) >>)]
    /\ detector' = DetectorAfter(detector, din[s].body)
    /\ UNCHANGED <<op, kin, kout, lon, out, din>>

\* calculate_compatibility_api runs: it reads the reference tables only.
HandleCalculateCompatibility(s) ==
    /\ op = "serve"
    /\ din[s].route = "/calculate-compatibility"
    /\ dout[s].pc = "handler"
    /\ dout' = [dout EXCEPT ![s] =
                    Progress("done", << >>, << RouteCalculateCompatibility(din[s].body) >>)]
    /\ UNCHANGED <<op, kin, kout, lon, out, din, detector>>

\* The response is sent and the slot is free again.
Respond(s) ==
    /\ op = "serve"
    /\ dout[s].pc = "done"
    /\ din' = [din EXCEPT ![s] = NoRequest]
    /\ dout' = [dout EXCEPT ![s] = Progress("idle", << >>, << >>)]
    /\ UNCHANGED <<op, kin, kout, lon, out, detector>>

Receives == \E s \in Slots : Receive(s)

HandlesDetectManglik == \E s \in Slots : HandleDetectManglik(s)

HandlesPerson1 == \E s \in Slots : HandlePerson1(s)

HandlesPerson2 == \E s \in Slots : HandlePerson2(s)

HandlesCalculateCompatibility == \E s \in Slots : HandleCalculateCompatibility(s)

Responds == \E s \in Slots : Respond(s)

\* The call is over: its arguments and result are dropped.
Return ==
    /\ op # "none"
    /\ op' = "none"
    /\ kin' = [bride_moon_sign |-> "", bride_nakshatra |-> "",
               groom_moon_sign |-> "", groom_nakshatra |-> ""]
    /\ kout' = [raised |-> "", field |-> "", value |-> "", ret |-> << >>]
    /\ lon' = Dbl(0, 0)
    /\ out' = NoOutput
    /\ din' = << >>
    /\ dout' = << >>
    /\ UNCHANGED detector

NextKoota == CallAshtaKoota \/ Return

NextPos == CallNormalizeDegrees \/ CallZodiacSign \/ CallNakshatraAndPada \/ Return

NextManglik == CallHouseFromLongitude \/ CallDetectManglik \/ Return

NextCompat == CallManglikCompatibility \/ Return

NextConf == CallCalculateConfidence \/ Return

NextKundli == CallGenerateKundli \/ CallDetectManglikOnChart \/ Return

NextHttp == PostGenerateKundli \/ PostCalculateCompatibility \/ PostDetectManglik
                \/ PostManglikCompatibility \/ Return

NextServe == Serve \/ Receives \/ HandlesDetectManglik \/ HandlesPerson1 \/ HandlesPerson2
                 \/ HandlesCalculateCompatibility \/ Responds

Next == CallAshtaKoota \/ CallNormalizeDegrees \/ CallZodiacSign
            \/ CallNakshatraAndPada \/ CallHouseFromLongitude \/ CallDetectManglik
            \/ CallManglikCompatibility \/ CallCalculateConfidence
            \/ CallGenerateKundli \/ CallDetectManglikOnChart \/ PostGenerateKundli \/ PostCalculateCompatibility
            \/ PostDetectManglik \/ PostManglikCompatibility
            \/ Serve \/ Receives \/ HandlesDetectManglik \/ HandlesPerson1 \/ HandlesPerson2
            \/ HandlesCalculateCompatibility \/ Responds \/ Return

\* The compatibility scorer alone
SpecKoota == Init /\ [][NextKoota]_vars

\* The position classifier alone
SpecPos == Init /\ [][NextPos]_vars

\* The affliction detector alone
SpecManglik == Init /\ [][NextManglik]_vars

\* The affliction-compatibility endpoint alone
SpecCompat == Init /\ [][NextCompat]_vars

\* The confidence score alone
SpecConf == Init /\ [][NextConf]_vars

\* Chart generation alone
SpecKundli == Init /\ [][NextKundli]_vars

\* The four POST routes, one request at a time
SpecHttp == Init /\ [][NextHttp]_vars

\* The server with up to MaxRequests requests in flight
SpecServe == Init /\ [][NextServe]_vars

Spec == Init /\ [][Next]_vars

(***************************************************************************)
(* Properties of the compatibility scorer (checked under SpecKoota)        *)
(***************************************************************************)

\* a call of the scorer has returned a result (it raised nothing)
Scored == op = "generate_ashta_koota" /\ kout.raised = ""

\* C1: total_gunas is the sum of the eight breakdown sub-scores, lies in
\* 0..36, and the verdict is "Good" exactly when total_gunas >= 18 and "Low"
\* otherwise.
C1_TotalIsSumAndVerdict ==
    Scored =>
        LET r == kout.ret[1]
            b == r.breakdown
        IN  /\ DOMAIN b = {"Varna", "Vashya", "Tara", "Yoni", "Graha Maitri",
                           "Gana", "Bhakoot", "Nadi"}
            /\ r.total_gunas = b["Varna"] + b["Vashya"] + b["Tara"] + b["Yoni"]
                                 + b["Graha Maitri"] + b["Gana"] + b["Bhakoot"] + b["Nadi"]
            /\ r.total_gunas \in 0..36
            /\ (r.total_gunas >= 18 => r.verdict = "Good")
            /\ (r.total_gunas < 18 => r.verdict = "Low")

\* C1 witness: a scored pair whose total sits exactly on the threshold
C1_Witness ==
    Scored /\ kout.ret[1].total_gunas = 18 /\ kout.ret[1].verdict = "Good"

\* C2: Graha Maitri is 5 for identical lords; otherwise Friend/Friend -> 5,
\* Friend/Neutral in either order -> 4, Neutral/Neutral -> 3, Neutral/Enemy in
\* either order -> 2, anything else -> 0.  The friendship table is asymmetric,
\* yet swapping bride and groom never changes the Graha Maitri score.
C2_GrahaMaitriTable ==
    /\ \E a, b \in DOMAIN GRAHA_MAITRI_FRIEND :
           get_friendship_status(a, b) # get_friendship_status(b, a)
    /\ Scored =>
        LET l1 == RASHI_LORD[kin.bride_moon_sign]
            l2 == RASHI_LORD[kin.groom_moon_sign]
            rels == { get_friendship_status(l1, l2), get_friendship_status(l2, l1) }
            expected == IF l1 = l2 THEN 5
                        ELSE IF rels = {"Friend"} THEN 5
                        ELSE IF rels = {"Friend", "Neutral"} THEN 4
                        ELSE IF rels = {"Neutral"} THEN 3
                        ELSE IF rels = {"Neutral", "Enemy"} THEN 2
                        ELSE 0
            swapped == generate_ashta_koota(kin.groom_moon_sign, kin.groom_nakshatra,
                                            kin.bride_moon_sign, kin.bride_nakshatra)
        IN  /\ kout.ret[1].breakdown["Graha Maitri"] = expected
            /\ swapped.ret[1].breakdown["Graha Maitri"]
                   = kout.ret[1].breakdown["Graha Maitri"]

\* C2 witness: lords whose two directional relations differ (Neutral one way,
\* Friend the other), scored 4
C2_Witness ==
    /\ Scored
    /\ get_friendship_status(RASHI_LORD[kin.bride_moon_sign],
                             RASHI_LORD[kin.groom_moon_sign]) = "Neutral"
    /\ get_friendship_status(RASHI_LORD[kin.groom_moon_sign],
                             RASHI_LORD[kin.bride_moon_sign]) = "Friend"
    /\ kout.ret[1].breakdown["Graha Maitri"] = 4

\* C3: with dist = (groomSignIdx - brideSignIdx) mod 12, Bhakoot is 0 exactly
\* when dist is in {1,11,4,8,5,7} and the lords are not friendly (friendly =
\* same lord, Friend/Friend, or Friend/Neutral); otherwise it is 7.
C3_Bhakoot ==
    Scored =>
        LET l1 == RASHI_LORD[kin.bride_moon_sign]
            l2 == RASHI_LORD[kin.groom_moon_sign]
            rels == { get_friendship_status(l1, l2), get_friendship_status(l2, l1) }
            friendly == l1 = l2 \/ rels = {"Friend"} \/ rels = {"Friend", "Neutral"}
            dist == (ListIndex(RASHI_ORDER, kin.groom_moon_sign)
                       - ListIndex(RASHI_ORDER, kin.bride_moon_sign)) % 12
            dosha == dist \in {1, 11, 4, 8, 5, 7}
        IN  /\ kout.ret[1].breakdown["Bhakoot"] \in {0, 7}
            /\ kout.ret[1].breakdown["Bhakoot"] = 0 <=> (dosha /\ ~friendly)

\* C3 witness: a dosha distance between signs of different, friendly lords,
\* where the dosha is cancelled
C3_Witness ==
    /\ Scored
    /\ (ListIndex(RASHI_ORDER, kin.groom_moon_sign)
          - ListIndex(RASHI_ORDER, kin.bride_moon_sign)) % 12 = 11
    /\ RASHI_LORD[kin.bride_moon_sign] # RASHI_LORD[kin.groom_moon_sign]
    /\ kout.ret[1].breakdown["Graha Maitri"] = 4
    /\ kout.ret[1].breakdown["Bhakoot"] = 7

\* C4: Vashya is 2 exactly when the bride's sign equals the groom's sign or is
\* in the set controlled by the groom's sign, and 0 otherwise; the bride's
\* sign controlling the groom's sign does not by itself yield 2.
C4_VashyaDirectional ==
    Scored =>
        LET controlled == kin.bride_moon_sign = kin.groom_moon_sign
                            \/ kin.bride_moon_sign \in VASHYA[kin.groom_moon_sign]
        IN  kout.ret[1].breakdown["Vashya"] = (IF controlled THEN 2 ELSE 0)

\* C4 witness: the bride's sign controls the groom's, not the other way round,
\* and the score is 0
C4_Witness ==
    /\ Scored
    /\ kin.bride_moon_sign # kin.groom_moon_sign
    /\ kin.groom_moon_sign \in VASHYA[kin.bride_moon_sign]
    /\ kin.bride_moon_sign \notin VASHYA[kin.groom_moon_sign]
    /\ kout.ret[1].breakdown["Vashya"] = 0

\* C5: with t = ((groomNakIdx - brideNakIdx) mod 27) mod 9, Tara is 0 exactly
\* when t is in {0,2,4,6} and 3 otherwise, also when the groom's index is the
\* smaller one.
C5_Tara ==
    Scored =>
        LET g == ListIndex(NAKSHATRA_ORDER, kin.groom_nakshatra)
            b == ListIndex(NAKSHATRA_ORDER, kin.bride_nakshatra)
            \* the non-negative residue, written without the % operator
            d == IF g >= b THEN g - b ELSE g - b + 27
            t == d - 9 * (d \div 9)
        IN  /\ d \in 0..26
            /\ kout.ret[1].breakdown["Tara"] = (IF t \in {0, 2, 4, 6} THEN 0 ELSE 3)

\* C5 witness: the groom's nakshatra index is below the bride's and the tara
\* is a bad one
C5_Witness ==
    /\ Scored
    /\ ListIndex(NAKSHATRA_ORDER, kin.groom_nakshatra)
         < ListIndex(NAKSHATRA_ORDER, kin.bride_nakshatra)
    /\ kout.ret[1].breakdown["Tara"] = 0

\* C6: if any of the four inputs is outside its enumeration the call raises
\* ValueError naming a field that is actually invalid and returns no score;
\* if all four are inside it never raises.
C6_Validation ==
    op = "generate_ashta_koota" =>
        LET signs == { RASHI_ORDER[i] : i \in 1..12 }
            naks == { NAKSHATRA_ORDER[i] : i \in 1..27 }
            invalid == (IF kin.bride_moon_sign \in signs THEN {} ELSE {"Bride Moon Sign"})
                  \cup (IF kin.groom_moon_sign \in signs THEN {} ELSE {"Groom Moon Sign"})
                  \cup (IF kin.bride_nakshatra \in naks THEN {} ELSE {"Bride Nakshatra"})
                  \cup (IF kin.groom_nakshatra \in naks THEN {} ELSE {"Groom Nakshatra"})
        IN  IF invalid = {}
            THEN kout.raised = "" /\ Len(kout.ret) = 1
            ELSE /\ kout.raised = "ValueError"
                 /\ kout.ret = << >>
                 /\ kout.field \in invalid
                 /\ kout.value \notin signs \cup naks

\* C6 witness: only the groom's moon sign is invalid, and it is the field named
C6_Witness ==
    /\ op = "generate_ashta_koota"
    /\ kin.bride_moon_sign = "Aries" /\ kin.bride_nakshatra = "Ashwini"
    /\ kin.groom_moon_sign = "Ophiuchus" /\ kin.groom_nakshatra = "Krittika"
    /\ kout.raised = "ValueError" /\ kout.field = "Groom Moon Sign"
    /\ kout.value = "Ophiuchus"

\* the call of end-to-end example 1
Example1 ==
    /\ op = "generate_ashta_koota"
    /\ kin = [bride_moon_sign |-> "Aries", bride_nakshatra |-> "Ashwini",
              groom_moon_sign |-> "Taurus", groom_nakshatra |-> "Krittika"]

\* C7: bride (Aries, Ashwini), groom (Taurus, Krittika) gives Varna 0, Vashya 0,
\* Tara 0, Yoni 4, Graha Maitri 3, Gana 0, Bhakoot 0, Nadi 8, total 15, "Low".
C7_Example1 ==
    Example1 =>
        /\ kout.raised = ""
        /\ kout.ret = << [total_gunas |-> 15,
                          max_gunas   |-> 36,
                          breakdown   |-> ("Varna" :> 0) @@ ("Vashya" :> 0) @@ ("Tara" :> 0)
                                          @@ ("Yoni" :> 4) @@ ("Graha Maitri" :> 3)
                                          @@ ("Gana" :> 0) @@ ("Bhakoot" :> 0) @@ ("Nadi" :> 8),
                          verdict     |-> "Low"] >>

\* C7 witness: the example call has been made and has returned
C7_Witness == Example1 /\ Len(kout.ret) = 1

(***************************************************************************)
(* Properties of the position classifier (checked under SpecPos)           *)
(***************************************************************************)

\* C8: normalize_degrees(d) lies in [0,360) for every d, including negative
\* values and multiples of 360 (which map to 0), and is congruent to d modulo
\* 360 (as far as a double can be: within half an ulp, 2^-45, of d + 360k).
C8_NormalizeInRange ==
    op = "normalize_degrees" =>
        /\ Le(Dbl(0, 0), out.norm)
        /\ Lt(out.norm, Dbl(4320, 0))
        /\ (out.norm.c - lon.c) % 4320 = 0
        /\ out.norm.f - lon.f \in -192..192
        /\ (lon.c % 4320 = 0 /\ lon.f = 0 => out.norm = Dbl(0, 0))

\* C9: zodiac_sign(L) = SIGNS[floor(normalize(L)/30)] with normalize(L) the
\* representative of L in [0,360): twelve contiguous 30-degree arcs from
\* 0 = Aries, each boundary in the later sign, period 360.
C9_ZodiacPartition ==
    op = "zodiac_sign" =>
        LET m == Dbl(lon.c % 4320, lon.f)
            position == IF Lt(m, Dbl(0, 0)) THEN Dbl(m.c + 4320, m.f) ELSE m
            arc == IF position.f < 0 /\ position.c % 360 = 0
                   THEN (position.c \div 360) - 1
                   ELSE position.c \div 360
        IN  /\ arc \in 0..11
            /\ out.sign = SIGNS[arc + 1]

\* C10: segment k = [k*800', (k+1)*800') maps to NAKSHATRAS[k]; a longitude on
\* a segment boundary belongs to the later nakshatra with pada 1; the four
\* quarters of 200' map to padas 1..4 in order; pada in 1..4, index in 0..26.
C10_NakshatraTiling ==
    op = "nakshatra_and_pada" =>
        LET m == Dbl(lon.c % 4320, lon.f)
            position == IF Lt(m, Dbl(0, 0)) THEN Dbl(m.c + 4320, m.f) ELSE m
            \* 5-arc-minute units completed (one less just below a unit)
            units == IF position.f < 0 THEN position.c - 1 ELSE position.c
            k == units \div 160
            quarter == (units % 160) \div 40
        IN  /\ k \in 0..26
            /\ out.nak = NAKSHATRAS[k + 1]
            /\ out.pada = quarter + 1
            /\ out.pada \in 1..4

(***************************************************************************)
(* Properties of the affliction detector (checked under SpecManglik)       *)
(***************************************************************************)

\* a call of calculate_house_from_longitude has returned
HouseCalled == op = "calculate_house_from_longitude"

\* the houses that afflict, as the specification lists them
AfflictingHouses == {1, 2, 4, 7, 8, 12}

\* C11: calculate_house_from_longitude(planet, reference) is
\* ((signIndex(planet) - signIndex(reference)) mod 12) + 1: it lies in 1..12,
\* is 1 whenever both longitudes have the same sign index (in particular when
\* they are the same longitude), and for a fixed reference the map from the
\* planet's sign index to the house is a bijection from 0..11 onto 1..12,
\* also when the planet's sign index is smaller than the reference's.
C11_HouseRotation ==
    HouseCalled =>
        LET p == get_sign_number(din.planet_longitude)
            r == get_sign_number(din.reference_longitude)
            h == dout.house
            pairs == { << get_sign_number(x),
                          calculate_house_from_longitude(x, din.reference_longitude) >> :
                       x \in HouseLongitudes }
        IN  /\ h \in 1..12
            /\ h = (IF p >= r THEN p - r ELSE p - r + 12) + 1
            /\ (p = r => h = 1)
            /\ (din.planet_longitude = din.reference_longitude => h = 1)
            /\ Cardinality(pairs) = 12
            /\ { pr[1] : pr \in pairs } = 0..11
            /\ { pr[2] : pr \in pairs } = 1..12

\* C11 witness: the planet's sign index is smaller than the reference's
\* (Taurus seen from Capricorn) and the house wraps round to 5
C11_Witness ==
    /\ HouseCalled
    /\ get_sign_number(din.planet_longitude) = 1
    /\ get_sign_number(din.reference_longitude) = 9
    /\ dout.house = 5

\* a call of detect_manglik has returned a detection result, not an error
Detected == op = "detect_manglik" /\ "error" \notin DOMAIN dout

\* the call carried a usable moon longitude
MoonPresent ==
    LET pl == din.kundli_data["planetary_longitudes"]
    IN  "moon" \in DOMAIN pl /\ pl["moon"].t # "None"

\* C12: mars_house_from_lagna is always computed; mars_house_from_moon is
\* non-null exactly when a moon longitude is present and check_from_moon is
\* set, and is null otherwise with is_manglik_from_moon false.  Each
\* is_manglik_from flag is true iff its house is in {1,2,4,7,8,12}, and
\* is_manglik is the OR of the two flags.
C12_References ==
    Detected =>
        LET pl == din.kundli_data["planetary_longitudes"]
        IN  /\ dout.mars_house_from_lagna
                   = calculate_house_from_longitude(pl["mars"].v, pl["ascendant"].v)
            /\ (dout.mars_house_from_moon # << >>) <=> (MoonPresent /\ din.check_from_moon)
            /\ (dout.mars_house_from_moon # << >> =>
                   dout.mars_house_from_moon
                       = << calculate_house_from_longitude(pl["mars"].v, pl["moon"].v) >>)
            /\ (dout.mars_house_from_moon = << >> => ~dout.is_manglik_from_moon)
            /\ dout.is_manglik_from_lagna <=> dout.mars_house_from_lagna \in AfflictingHouses
            /\ (dout.mars_house_from_moon # << >> =>
                   (dout.is_manglik_from_moon
                        <=> dout.mars_house_from_moon[1] \in AfflictingHouses))
            /\ dout.is_manglik <=> (dout.is_manglik_from_lagna \/ dout.is_manglik_from_moon)

\* C12 witness: a moon longitude that would afflict (house 7 from the Moon)
\* is present, but the detector was built with check_from_moon false
C12_Witness ==
    /\ Detected
    /\ MoonPresent
    /\ ~din.check_from_moon
    /\ calculate_house_from_longitude(din.kundli_data["planetary_longitudes"]["mars"].v,
                                      din.kundli_data["planetary_longitudes"]["moon"].v) = 7
    /\ dout.mars_house_from_moon = << >>
    /\ ~dout.is_manglik

\* the weight of a house, as the specification lists it
Weight(house) ==
    CASE house = 7 -> 5
      [] house = 8 -> 4
      [] house \in {1, 4} -> 3
      [] house \in {2, 12} -> 2
      [] OTHER -> 0

\* the tier of a score, as the specification lists it
Tier(score) ==
    IF score >= 5 THEN "Very High"
    ELSE IF score >= 4 THEN "High"
    ELSE IF score >= 3 THEN "Medium"
    ELSE IF score >= 2 THEN "Low"
    ELSE IF score >= 1 THEN "Mild"
    ELSE "None"

\* C13: severity_score is the maximum of the two references' house weights
\* (7->5, 8->4, 1->3, 4->3, 2->2, 12->2; 0 for a reference that does not
\* afflict or is absent), and severity is the tier of the score: >= 5 "Very
\* High", >= 4 "High", >= 3 "Medium", >= 2 "Low", >= 1 "Mild", else "None".
C13_Severity ==
    Detected =>
        LET from_lagna == Weight(dout.mars_house_from_lagna)
            from_moon == IF dout.mars_house_from_moon = << >> THEN 0
                         ELSE Weight(dout.mars_house_from_moon[1])
        IN  /\ dout.severity_score = Max(from_lagna, from_moon)
            /\ dout.severity = Tier(dout.severity_score)

\* C13 witness: both references afflict with different weights (house 2 from
\* Lagna, house 7 from the Moon) and the larger one is the score
C13_Witness ==
    /\ Detected
    /\ dout.mars_house_from_lagna = 2
    /\ dout.mars_house_from_moon = << 7 >>
    /\ dout.severity_score = 5
    /\ dout.severity = "Very High"

\* the cancellations list holds a reason with this label
HasReason(label) ==
    \E i \in 1..Len(dout.cancellations) : dout.cancellations[i].label = label

\* C14 as stated: the cancellations list contains a "Partial Dosha" reason
\* exactly when is_manglik_from_lagna differs from is_manglik_from_moon in
\* the result, the case of an absent or unchecked Moon reference included.
C14_PartialDoshaAsStated ==
    Detected =>
        (HasReason("Partial Dosha")
             <=> (dout.is_manglik_from_lagna # dout.is_manglik_from_moon))

\* C14 amended: the cancellations list contains a "Partial Dosha" reason
\* exactly when a house from the Moon was computed and is_manglik_from_lagna
\* differs from is_manglik_from_moon; with an absent or unchecked Moon
\* reference there is no such reason, whatever the Lagna says.
C14_PartialDosha ==
    Detected =>
        (HasReason("Partial Dosha")
             <=> (/\ dout.mars_house_from_moon # << >>
                  /\ dout.is_manglik_from_lagna # dout.is_manglik_from_moon))

\* C14 witness: the Lagna afflicts, no house from the Moon was computed, and
\* the list has no "Partial Dosha" reason
C14_Witness ==
    /\ Detected
    /\ dout.is_manglik_from_lagna
    /\ dout.mars_house_from_moon = << >>
    /\ ~HasReason("Partial Dosha")

\* C15: with e = severity_score - 1.5 * (number of cancellation reasons),
\* dosha_strength is "No Dosha" when severity_score is 0 whatever the
\* cancellations; otherwise e <= 0 "Fully Cancelled", e <= 1 "Negligible",
\* e <= 2 "Weak", e <= 3 "Moderate", e <= 4 "Strong", else "Very Strong".
\* (10 * e is compared with 10 times each threshold.)
C15_DoshaStrength ==
    Detected =>
        LET e10 == 10 * dout.severity_score - 15 * Len(dout.cancellations)
        IN  dout.dosha_strength =
                (IF dout.severity_score = 0 THEN "No Dosha"
                 ELSE IF e10 <= 0 THEN "Fully Cancelled"
                 ELSE IF e10 <= 10 THEN "Negligible"
                 ELSE IF e10 <= 20 THEN "Weak"
                 ELSE IF e10 <= 30 THEN "Moderate"
                 ELSE IF e10 <= 40 THEN "Strong"
                 ELSE "Very Strong")

\* C15 witness: score 5 with one cancellation, e = 3.5, "Strong"
C15_Witness ==
    /\ Detected
    /\ dout.severity_score = 5
    /\ Len(dout.cancellations) = 1
    /\ dout.dosha_strength = "Strong"

\* the result is an error record: error text, is_manglik null, a message,
\* and no detection field
IsErrorRecord ==
    /\ DOMAIN dout = {"error", "is_manglik", "message"}
    /\ dout.is_manglik = "None"

\* C16: detect_manglik never raises.  With "mars" or "ascendant" missing
\* from planetary_longitudes (or planetary_longitudes itself missing) it
\* returns an error record; Mars is looked for first, so with both missing
\* the error names Mars.  Any other failure (a longitude that is not a
\* number) is returned as an error record too; everything else is a
\* detection result.
C16_ErrorRecords ==
    op = "detect_manglik" =>
        LET pl == Get(din.kundli_data, "planetary_longitudes", EmptyDict)
            read == {"mars", "ascendant"}
                        \cup (IF din.check_from_moon /\ "moon" \in DOMAIN pl
                                 /\ pl["moon"].t # "None"
                              THEN {"moon"} ELSE {})
        IN  IF "mars" \notin DOMAIN pl
            THEN IsErrorRecord /\ dout.error = "Mars longitude not found in Kundli data"
            ELSE IF "ascendant" \notin DOMAIN pl
            THEN IsErrorRecord /\ dout.error = "Ascendant longitude not found in Kundli data"
            ELSE IF \E k \in read : pl[k].t # "float"
            THEN IsErrorRecord /\ dout.message = "Error processing Kundli data"
            ELSE "error" \notin DOMAIN dout /\ dout.is_manglik \in BOOLEAN

\* C16 witness: neither "mars" nor "ascendant" is in planetary_longitudes
\* and the error names Mars
C16_Witness ==
    /\ op = "detect_manglik"
    /\ "planetary_longitudes" \in DOMAIN din.kundli_data
    /\ DOMAIN din.kundli_data["planetary_longitudes"] \cap {"mars", "ascendant"} = {}
    /\ IsErrorRecord
    /\ dout.error = "Mars longitude not found in Kundli data"

\* detect_manglik was called with Mars at 190.5, this Ascendant and no Moon
ExampleCall(ascendant) ==
    /\ op = "detect_manglik"
    /\ "planetary_longitudes" \in DOMAIN din.kundli_data
    /\ LET pl == din.kundli_data["planetary_longitudes"]
       IN  /\ {"mars", "ascendant"} \subseteq DOMAIN pl
           /\ "moon" \notin DOMAIN pl
           /\ pl["mars"] = Float(Dbl(2286, 0))
           /\ pl["ascendant"] = Float(ascendant)

\* the result says there is no affliction at all
NoAffliction ==
    /\ "error" \notin DOMAIN dout
    /\ dout.mars_house_from_lagna \notin AfflictingHouses
    /\ dout.is_manglik = FALSE
    /\ dout.severity = "None"
    /\ dout.severity_score = 0
    /\ dout.dosha_strength = "No Dosha"

\* C17: with Mars at 190.5 and no Moon, Ascendant 49.464221 gives sign index
\* 6 for Mars, 1 for the Ascendant and mars_house_from_lagna 6; Ascendant
\* 250 gives sign index 8 and house 11.  In both cases the house is not in
\* {1,2,4,7,8,12}: is_manglik false, severity "None", severity_score 0,
\* dosha_strength "No Dosha".
C17_Examples ==
    /\ ExampleCall(Asc49) =>
           /\ NoAffliction
           /\ dout.mars_rashi_number - 1 = 6
           /\ get_sign_number(Asc49) = 1
           /\ dout.mars_house_from_lagna = 6
    /\ ExampleCall(Dbl(3000, 0)) =>
           /\ NoAffliction
           /\ dout.mars_rashi_number - 1 = 6
           /\ get_sign_number(Dbl(3000, 0)) = 8
           /\ dout.mars_house_from_lagna = 11

\* C17 witness: the call with Ascendant 250 has returned house 11
C17_Witness == ExampleCall(Dbl(3000, 0)) /\ NoAffliction /\ dout.mars_house_from_lagna = 11

\* C18 as stated: for Mars at 190.5 with Ascendant 49.464221 and no Moon,
\* Mars is in its own sign Scorpio and the cancellations list includes the
\* "Swakshetra" reason although is_manglik is false.
C18_SwakshetraAsStated ==
    ExampleCall(Asc49) =>
        /\ "error" \notin DOMAIN dout
        /\ dout.is_manglik = FALSE
        /\ dout.mars_sign = "Scorpio"
        /\ HasReason("Swakshetra")

\* C18 amended: for Mars at 190.5 (sign index 6) with Ascendant 49.464221
\* and no Moon, Mars is in Libra, which is not an own sign, is_manglik is
\* false and the cancellations list is empty.  The sign-based checks do run
\* whatever the affliction: the list includes the "Swakshetra" reason
\* exactly when Mars is in Aries or Scorpio, also when is_manglik is false.
C18_Swakshetra ==
    /\ ExampleCall(Asc49) =>
           /\ "error" \notin DOMAIN dout
           /\ dout.is_manglik = FALSE
           /\ dout.mars_sign = "Libra"
           /\ dout.cancellations = << >>
    /\ Detected => (HasReason("Swakshetra") <=> dout.mars_sign \in {"Aries", "Scorpio"})

\* C18 witness: Mars in Scorpio, no affliction, and "Swakshetra" in the list
C18_Witness ==
    /\ Detected
    /\ dout.mars_sign = "Scorpio"
    /\ dout.is_manglik = FALSE
    /\ HasReason("Swakshetra")

(***************************************************************************)
(* Properties of POST /manglik-compatibility (checked under SpecCompat)    *)
(***************************************************************************)

\* the detection of one person alone, by the application's detector
Analysis(longitudes) ==
    detect_manglik(app_state_manglik_detector.check_from_moon,
                   [planetary_longitudes |-> longitudes])

\* C19: the detector is run on each person's longitudes independently; if
\* either detection is an error the request fails with no verdict; otherwise
\* exactly one of three outcomes is returned and compatible is true iff both
\* is_manglik flags are equal: both -> compatible "Ubhaya Manglik", neither
\* -> compatible "No Manglik Dosha", exactly one -> not compatible "Partial
\* Manglik".  Swapping person1 and person2 leaves the outcome unchanged.
C19_Compatibility ==
    op = "manglik_compatibility_api" =>
        LET a1 == Analysis(din.person1_longitudes)
            a2 == Analysis(din.person2_longitudes)
            swapped == manglik_compatibility_api(din.person2_longitudes,
                                                 din.person1_longitudes)
        IN  IF "error" \in DOMAIN a1 \/ "error" \in DOMAIN a2
            THEN /\ dout.status_code = 400
                 /\ "verdict" \notin DOMAIN dout
                 /\ swapped = dout
            ELSE /\ dout.status_code = 200
                 /\ dout.person1_analysis = a1
                 /\ dout.person2_analysis = a2
                 /\ dout.verdict.compatible <=> (a1.is_manglik <=> a2.is_manglik)
                 /\ dout.verdict.compatibility_type =
                        (IF a1.is_manglik /\ a2.is_manglik
                         THEN "Ubhaya Manglik (Both Manglik)"
                         ELSE IF ~a1.is_manglik /\ ~a2.is_manglik
                         THEN "No Manglik Dosha"
                         ELSE "Partial Manglik")
                 /\ swapped.status_code = 200
                 /\ swapped.verdict = dout.verdict

\* C19 witness: neither person is afflicted and the pair is compatible
C19_Witness ==
    /\ op = "manglik_compatibility_api"
    /\ dout.status_code = 200
    /\ ~dout.person1_analysis.is_manglik
    /\ ~dout.person2_analysis.is_manglik
    /\ dout.verdict.compatible
    /\ dout.verdict.compatibility_type = "No Manglik Dosha"

(***************************************************************************)
(* Properties of calculate_confidence (checked under SpecConf)             *)
(***************************************************************************)

\* C20: calculate_confidence starts at 100, subtracts 5 when the Moon's
\* longitude modulo one nakshatra segment (13 deg 20 min, 160 twelfths of a
\* degree) is less than 0.5 degree from the start or from the end of the
\* segment, subtracts 5 when the Ascendant's longitude modulo 30 is less
\* than 0.5 degree from the start or from the end of its sign, and floors at
\* 0; the two deductions are independent and the result is an integer in
\* 0..100.
C20_Confidence ==
    op = "calculate_confidence" =>
        LET moon_offset == din.moon_long.c % 160
            asc_offset == din.asc_long.c % 360
            moon_deduction == IF moon_offset < 6 \/ moon_offset > 160 - 6 THEN 5 ELSE 0
            asc_deduction == IF asc_offset < 6 \/ asc_offset > 360 - 6 THEN 5 ELSE 0
        IN  /\ dout.confidence \in 0..100
            /\ dout.confidence = Max(100 - moon_deduction - asc_deduction, 0)

(***************************************************************************)
(* The HTTP boundary                                                       *)
(***************************************************************************)

\* a POST has been answered
Posted ==
    op \in { "POST /generate-kundli", "POST /calculate-compatibility",
             "POST /detect-manglik", "POST /manglik-compatibility" }

\* a dict of an affliction route lacks the mars or the ascendant key
KeyMissing(longitudes) == ~({"mars", "ascendant"} \subseteq DOMAIN longitudes)

\* the request fails validation: its body does not match the schema, its
\* coordinates are out of range, its date or time is malformed, its timezone
\* is unknown, or a mars or ascendant key is missing
ValidationFails ==
    CASE op = "POST /generate-kundli" ->
            /\ din.body.timezone \notin DangerousTexts
            /\ \/ ~KundliRequestValid(din.body)
               \/ validate_coordinates(din.body.latitude.v, din.body.longitude.v) # << >>
               \/ din.body.date \notin WellFormedDates
               \/ din.body.time \notin WellFormedTimes
               \/ din.body.timezone \notin KnownTimezones
      [] op = "POST /calculate-compatibility" -> ~CompatibilityRequestValid(din.body)
      [] op = "POST /detect-manglik" ->
            \/ ~ManglikRequestValid(din.body)
            \/ KeyMissing(din.body["planetary_longitudes"])
      [] op = "POST /manglik-compatibility" ->
            \/ ~ManglikCompatibilityRequestValid(din.body)
            \/ KeyMissing(din.body["person1_longitudes"])
            \/ KeyMissing(din.body["person2_longitudes"])
      [] OTHER -> FALSE

\* the JSON body carries an error and a message field, at its top level or
\* in its detail
CarriesErrorAndMessage(response) ==
    IF "detail" \in DOMAIN response
    THEN {"error", "message"} \subseteq DOMAIN response.detail
    ELSE {"error", "message"} \subseteq DOMAIN response

SchemaFails ==
    CASE op = "POST /generate-kundli" -> ~KundliRequestValid(din.body)
      [] op = "POST /calculate-compatibility" -> ~CompatibilityRequestValid(din.body)
      [] op = "POST /detect-manglik" -> ~ManglikRequestValid(din.body)
      [] op = "POST /manglik-compatibility" -> ~ManglikCompatibilityRequestValid(din.body)
      [] OTHER -> FALSE

ExposesExceptionText ==
    /\ "detail" \in DOMAIN dout
    /\ "error" \in DOMAIN dout.detail
    /\ dout.detail.error \in { TypeErrorText(None), TypeErrorText(Str) }

\* an internal failure: an ephemeris call fails, the local time cannot be
\* localized, or the detector's arithmetic raises on a value that is not a
\* number
InternalFailure ==
    CASE op = "POST /generate-kundli" ->
            /\ dout.status_code \notin {400, 422}
            /\ \/ \E c \in DOMAIN din.swe : ~din.swe[c].ok
               \/ NotLocalizable(din.body.date, din.body.time, din.body.timezone)
      [] op = "POST /detect-manglik" ->
            /\ ManglikRequestValid(din.body)
            /\ ~KeyMissing(din.body["planetary_longitudes"])
            /\ \E k \in {"mars", "ascendant"} :
                   din.body["planetary_longitudes"][k].t # "float"
      [] OTHER -> FALSE

\* C22: no response exposes the text of an internal (non-validation)
\* exception: an ephemeris failure or any other unexpected failure inside
\* chart generation, scoring or detection is answered with a generic HTTP
\* 500 whose body contains no exception message.
C22_InternalFailuresAreGeneric500 ==
    /\ Posted => ~ExposesExceptionText
    /\ Posted /\ InternalFailure =>
           /\ dout.status_code = 500
           /\ dout.detail = [error |-> "Internal Server Error"]

(***************************************************************************)
(* generate_kundli                                                         *)
(***************************************************************************)

\* a call of generate_kundli has returned a chart
Charted == op = "generate_kundli" /\ dout.chart # << >>

\* C23: for every chart returned by generate_kundli, zodiac_sign of the sun,
\* moon and ascendant longitudes stored in planetary_longitudes (rounded to 6
\* decimal places) is the chart's sun_sign, moon_sign and ascendant, also for
\* raw longitudes just below a sign boundary or just below 360.
C23_StoredLongitudesGiveSigns ==
    Charted =>
        LET chart == dout.chart[1]
            stored == chart.planetary_longitudes
        IN  /\ zodiac_sign(stored.sun.v) = chart.sun_sign
            /\ zodiac_sign(stored.moon.v) = chart.moon_sign
            /\ zodiac_sign(stored.ascendant.v) = chart.ascendant

\* the coordinates of the call are out of range
BadCoordinates ==
    \/ Lt(din.data.latitude, Dbl(-1080, 0)) \/ Lt(Dbl(1080, 0), din.data.latitude)
    \/ Lt(din.data.longitude, Dbl(-2160, 0)) \/ Lt(Dbl(2160, 0), din.data.longitude)

\* the date or time is malformed or the timezone unknown
BadDateTime ==
    \/ din.data.date \notin WellFormedDates
    \/ din.data.time \notin WellFormedTimes
    \/ din.data.timezone \notin KnownTimezones

\* s is an initial part of t
IsPrefix(s, t) == Len(s) <= Len(t) /\ s = SubSeq(t, 1, Len(s))

\* the ephemeris fails the i-th call of the log
FailedCall(i) ==
    dout.calls[i] # "swe.julday" /\ ~Answer(din.swe, dout.calls[i]).ok

\* C24: generate_kundli is fail-fast in the order coordinates, date/time and
\* timezone, house/ayanamsa/Sun/Moon ephemeris calls, classification,
\* confidence: out-of-range coordinates raise ValueError (about the
\* coordinate) with no ephemeris call made; else a malformed date or time or
\* an unknown timezone raises ValueError with no position call made; the
\* calls are made in the fixed order, and a failed ephemeris call is the last
\* one made: the request ends with RuntimeError and without a chart.
C24_FailFast ==
    op = "generate_kundli" =>
        /\ IsPrefix(dout.calls, << "swe.julday" >> \o PositionCalls)
        /\ BadCoordinates =>
               /\ dout.calls = << >> /\ dout.chart = << >>
               /\ Len(dout.raised) = 1 /\ dout.raised[1].type = "ValueError"
               /\ dout.raised[1].arg \in { din.data.latitude, din.data.longitude }
        /\ ~BadCoordinates /\ BadDateTime =>
               /\ dout.calls = << >> /\ dout.chart = << >>
               /\ Len(dout.raised) = 1 /\ dout.raised[1].type = "ValueError"
        /\ \A i \in DOMAIN dout.calls :
               FailedCall(i) =>
                   /\ i = Len(dout.calls)
                   /\ dout.chart = << >>
                   /\ Len(dout.raised) = 1 /\ dout.raised[1].type = "RuntimeError"
        /\ dout.chart # << >> =>
               /\ dout.raised = << >>
               /\ dout.calls = << "swe.julday" >> \o PositionCalls
               /\ \A i \in DOMAIN dout.calls : ~FailedCall(i)

\* the houses call succeeded, the ayanamsa call failed while the Sun and
\* Moon calls would have succeeded: they were not made
C24_Witness ==
    /\ op = "generate_kundli"
    /\ din.swe.houses.ok /\ ~din.swe.ayanamsa.ok /\ din.swe.sun.ok /\ din.swe.moon.ok
    /\ dout.calls = << "swe.julday", "swe.houses", "swe.get_ayanamsa_ut" >>
    /\ dout.raised[1].type = "RuntimeError"
    /\ dout.chart = << >>

\* C28: the planetary_longitudes of any chart returned by generate_kundli,
\* passed unchanged to detect_manglik, give a detection result (is_manglik
\* true or false), not an error record.
C28_ChartIsDetectorInput ==
    op = "detect_manglik(chart)" =>
        /\ "error" \notin DOMAIN dout
        /\ dout.is_manglik \in BOOLEAN

(***************************************************************************)
(* The check_from_moon flag of a request                                   *)
(***************************************************************************)

\* the analyses of a 200 answer of an affliction route
Analyses ==
    IF op = "POST /detect-manglik" THEN { dout.body }
    ELSE { dout.person1_analysis, dout.person2_analysis }

\* C25: for POST /detect-manglik and POST /manglik-compatibility with
\* check_from_moon = false no Moon-based house is computed even when a moon
\* longitude is supplied: every returned analysis has mars_house_from_moon
\* null and is_manglik_from_moon false, and is_manglik is the Lagna flag.
C25_FlagHonoured ==
    /\ op \in { "POST /detect-manglik", "POST /manglik-compatibility" }
    /\ dout.status_code = 200
    /\ ~din.body["check_from_moon"]
    => \A a \in Analyses :
           /\ a.mars_house_from_moon = << >>
           /\ ~a.is_manglik_from_moon
           /\ a.is_manglik = a.is_manglik_from_lagna

(***************************************************************************)
(* The classifier's outputs as scorer inputs                               *)
(***************************************************************************)

\* C27: every nakshatra name nakshatra_and_pada returns is a member of
\* NAKSHATRA_ORDER and of NakshatraEnum and every sign zodiac_sign returns
\* is a member of RASHI_ORDER and of RashiEnum, so neither is rejected by
\* generate_ashta_koota or by the request schema.
C27_ClassifierOutputsAreScorerInputs ==
    /\ op = "zodiac_sign" =>
           /\ InList(out.sign, RASHI_ORDER)
           /\ out.sign \in RashiEnum
    /\ op = "nakshatra_and_pada" =>
           /\ InList(out.nak, NAKSHATRA_ORDER)
           /\ out.nak \in NakshatraEnum
           /\ generate_ashta_koota("Aries", out.nak, "Aries", out.nak).raised = ""
           /\ CompatibilityRequestValid([bride |-> [moon_sign |-> "Aries", nakshatra |-> out.nak],
                                         groom |-> [moon_sign |-> "Aries", nakshatra |-> out.nak]])

(***************************************************************************)
(* Requests in flight at the same time                                     *)
(***************************************************************************)

\* the answer to a request handled with no other request in flight
Alone(request) ==
    CASE request.route = "/detect-manglik" ->
            RouteDetectManglik(app_state_manglik_detector, request.body)
      [] request.route = "/manglik-compatibility" ->
            RouteManglikCompatibility(request.body)
      [] request.route = "/calculate-compatibility" ->
            RouteCalculateCompatibility(request.body)

\* C26: for any interleaving of concurrent detect-manglik,
\* manglik-compatibility and calculate-compatibility requests that share the
\* ManglikDetector of app.state, no request changes the detector's
\* check_from_moon field, and each request's result equals the result of
\* running that request alone.  (The reference tables are definitions: no
\* action assigns to them.)
C26_RequestsAreIndependent ==
    op = "serve" =>
        /\ detector = app_state_manglik_detector
        /\ \A s \in Slots :
               dout[s].pc = "done" => dout[s].response = << Alone(din[s]) >>

\* a manglik-compatibility request is between its two calls of the detector
\* while a detect-manglik request with check_from_moon = false, received in
\* another slot, has been answered
C26_Witness ==
    /\ op = "serve"
    /\ \E s, t \in Slots :
           /\ din[s].route = "/manglik-compatibility"
           /\ din[s].body["check_from_moon"]
           /\ dout[s].pc = "person2"
           /\ din[t].route = "/detect-manglik"
           /\ ~din[t].body["check_from_moon"]
           /\ dout[t].pc = "done"
           /\ dout[t].response[1].status_code = 200

(***************************************************************************)
(* Consistency of a detection result                                       *)
(***************************************************************************)

\* C29: in every non-error result of detect_manglik, is_manglik is true iff
\* severity_score >= 2 iff severity is not "None" iff dosha_strength is not
\* "No Dosha"; severity_score is one of 0, 2, 3, 4, 5, so the tier "Mild" is
\* never returned; is_cancelled is true iff the cancellations list is
\* non-empty, whatever is_manglik is.
C29_ResultIsConsistent ==
    Detected =>
        /\ dout.is_manglik <=> dout.severity_score >= 2
        /\ dout.is_manglik <=> dout.severity # "None"
        /\ dout.is_manglik <=> dout.dosha_strength # "No Dosha"
        /\ dout.severity_score \in {0, 2, 3, 4, 5}
        /\ dout.severity # "Mild"
        /\ dout.is_cancelled <=> dout.cancellations # << >>

\* a result without affliction whose cancellations list is not empty
C29_Witness ==
    /\ Detected
    /\ ~dout.is_manglik
    /\ dout.severity_score = 0
    /\ dout.severity = "None"
    /\ dout.dosha_strength = "No Dosha"
    /\ dout.is_cancelled
    /\ dout.cancellations # << >>

(***************************************************************************)
(* Identical profiles                                                      *)
(***************************************************************************)

\* bride and groom of the call have the same moon sign and nakshatra
IdenticalProfiles ==
    /\ kin.bride_moon_sign = kin.groom_moon_sign
    /\ kin.bride_nakshatra = kin.groom_nakshatra

\* C30: for identical profiles generate_ashta_koota scores Tara 0 and Nadi 0
\* and full marks on the other six factors, so the total is 25 with verdict
\* "Good"; the maximum 36 is not attained by identical profiles.
C30_IdenticalProfiles ==
    Scored /\ IdenticalProfiles =>
        LET r == kout.ret[1]
            b == r.breakdown
        IN  /\ b["Tara"] = 0 /\ b["Nadi"] = 0
            /\ b["Varna"] = 1 /\ b["Vashya"] = 2 /\ b["Yoni"] = 4
            /\ b["Graha Maitri"] = 5 /\ b["Gana"] = 6 /\ b["Bhakoot"] = 7
            /\ r.total_gunas = 25
            /\ r.total_gunas # 36
            /\ r.verdict = "Good"

\* both are Scorpio with Jyeshtha
C30_Witness ==
    /\ Scored /\ IdenticalProfiles
    /\ kin.bride_moon_sign = "Scorpio"
    /\ kin.bride_nakshatra = "Jyeshtha"
    /\ kout.ret[1].total_gunas = 25

====
